---- MODULE Spec2Model ----
(***************************************************************************)
(* Combat and progression engine of the dungeon crawler: the actor rules   *)
(* of models.py, the weighted selection of utils.py, the drop engine of    *)
(* drop_calculator.py, the monster generator, the combat engine of         *)
(* combat_engine.py and the run loop of systems.py (GameSystem, the class  *)
(* main.py and run_game.py start).                                         *)
(*                                                                         *)
(* Floats are exact rationals [num, den]; enum members are strings; a list *)
(* is a sequence; the random source's outputs are inputs drawn with \E.    *)
(***************************************************************************)
EXTENDS Integers, Sequences, FiniteSets, TLC

VARIABLES
    player,            \* GameSystem.player / the Player handed to the engines
    current_monster,   \* GameSystem.current_monster (NoMonster models None)
    remaining_gear,    \* DropCalculator._remaining_gear
    monsters_defeated, \* GameSystem.monsters_defeated
    game_won,          \* GameSystem.game_won
    emitted,           \* history: how often the drop engine returned each unique-gear kind
    last               \* history: the operation performed by the last step

vars == <<player, current_monster, remaining_gear, monsters_defeated, game_won,
          emitted, last>>

-----------------------------------------------------------------------------
(* Bounds of the exploration *)

MaxDefeated == 4
MaxPotions == 1
MaxScrolls == 1
MaxArmorDrops == 0
MaxDefeatedCountArg == 2
\* take_damage is called with incoming_damage in -MaxDamageArg..MaxDamageArg
MaxDamageArg == 4
\* and defense in -MaxDefenseArg..MaxDefenseArg
MaxDefenseArg == 3
\* select_weighted_random is called with lists of 1..MaxOptions options
MaxOptions == 3

-----------------------------------------------------------------------------
(* Arithmetic helpers *)

Max(a, b) == IF a >= b THEN a ELSE b

MinOf(S) == CHOOSE x \in S : \A y \in S : x <= y

Rat(n, d) == [num |-> n, den |-> d]

RatAdd(a, b) == Rat(a.num * b.den + b.num * a.den, a.den * b.den)

RatMul(a, b) == Rat(a.num * b.num, a.den * b.den)

RatLess(a, b) == a.num * b.den < b.num * a.den

RatLeq(a, b) == a.num * b.den <= b.num * a.den

-----------------------------------------------------------------------------
(* config.py *)

PLAYER_MAX_HEALTH == 30
PLAYER_BASE_STRENGTH == 5
PLAYER_BASE_DEFENSE == 1

MONSTER_HEALTH_MIN == 12
MONSTER_HEALTH_MAX == 22
MONSTER_STRENGTH_MIN == 2
MONSTER_STRENGTH_MAX == 6

HOLY_SMITE_BASE_DAMAGE == 7
SWORD_SLASH_BASE_DAMAGE == 9
SHIELD_BASH_BASE_DAMAGE == 6

WEAKNESS_BONUS_DAMAGE == 5

ARMOR_DEFENSE_BONUS_PER_PIECE == 2

FLEE_SUCCESS_CHANCE == Rat(1, 2)

BOSS_HP == 45
BOSS_STRENGTH == 9
BOSS_SPAWN_THRESHOLD == 4
BOSS_SPAWN_CHANCE == Rat(1, 5)

ROOM_TYPE_WEIGHTS ==
    << [name |-> "empty", weight |-> Rat(2, 5)],
       [name |-> "loot", weight |-> Rat(1, 5)],
       [name |-> "monster", weight |-> Rat(2, 5)] >>

DROP_WEIGHTS ==
    [NO_ITEM |-> Rat(2, 5), HEALTH_POTION |-> Rat(3, 10),
     ESCAPE_SCROLL |-> Rat(1, 5), ARMOR |-> Rat(1, 10)]

-----------------------------------------------------------------------------
(* The random source: the outputs the model draws for each kind of call *)

\* random(): floats of [0, 1), one in each bucket of every weighted choice,
\* 1/2 being the boundary of the flee roll
RandomOutputs == {Rat(0, 1), Rat(1, 2), Rat(4, 5), Rat(19, 20)}

\* randint(a, b): the middle of the range (a monster of 17 health falls to one
\* weakness hit or to two plain hits)
RandintOutputs(a, b) == {a + (b - a) \div 2}

\* choice(seq): every element
ChoiceOutputs(seq) == {seq[i] : i \in 1..Len(seq)}

\* random.randint(0, 2) of Monster.attack: the whole range
AttackVariance == 0..2

-----------------------------------------------------------------------------
(* models.py: enums *)

Action == {"USE_POTION", "FLEE", "SWORD_SLASH", "SHIELD_BASH", "HOLY_SMITE"}

Weakness == {"SWORD_SLASH", "SHIELD_BASH", "HOLY_SMITE"}

DropResult ==
    {"NO_ITEM", "HEALTH_POTION", "ESCAPE_SCROLL", "SHIELD", "SWORD", "HELM",
     "PAULDRONS", "CUIRASS", "GAUNTLETS", "LEG_GUARDS", "BOOTS"}

unique_gear ==
    <<"SHIELD", "SWORD", "HELM", "PAULDRONS", "CUIRASS", "GAUNTLETS",
      "LEG_GUARDS", "BOOTS">>

ArmorKinds == {"HELM", "PAULDRONS", "CUIRASS", "GAUNTLETS", "LEG_GUARDS", "BOOTS"}

UniqueGearKinds == {unique_gear[i] : i \in 1..Len(unique_gear)}

-----------------------------------------------------------------------------
(* Python list helpers *)

InList(x, s) == \E i \in 1..Len(s) : s[i] = x

\* variant: the list is left as it is
ListKeep(s, x) == s

\* list.remove(x): drops the first occurrence
ListRemove(s, x) ==
    LET i == MinOf({j \in 1..Len(s) : s[j] = x})
    IN  SubSeq(s, 1, i - 1) \o SubSeq(s, i + 1, Len(s))

-----------------------------------------------------------------------------
(* models.py: Actor, Inventory, Player, Monster *)

\* Actor(max_health, strength) after __post_init__, as a Player
NewPlayer(max_health, strength, base_defense) ==
    [max_health |-> max_health, strength |-> strength, health |-> max_health,
     base_defense |-> base_defense, num_potions |-> 0, num_escape_scrolls |-> 0,
     owned_armor |-> {}, has_shield |-> FALSE, has_sword |-> FALSE]

\* Actor(max_health, strength) after __post_init__, as a Monster
NewMonster(max_health, strength, name, weaknesses, is_boss) ==
    [max_health |-> max_health, strength |-> strength, health |-> max_health,
     name |-> name, weaknesses |-> weaknesses, is_boss |-> is_boss,
     item_drop |-> "None"]

\* current_monster = None
NoMonster ==
    [max_health |-> 0, strength |-> 0, health |-> 0, name |-> "None",
     weaknesses |-> {}, is_boss |-> FALSE, item_drop |-> "None"]

\* variant: the defense is not clamped at 0 before it is subtracted
damage_after_defense_unclamped_defense(incoming_damage, defense) ==
    Max(0, incoming_damage - defense)

damage_after_defense(incoming_damage, defense) ==
    Max(0, incoming_damage - Max(0, defense))

\* variant: the health is not clamped at 0
take_damage_unclamped(actor, incoming_damage, defense) ==
    [actor EXCEPT !.health = actor.health - damage_after_defense(incoming_damage, defense)]

take_damage(actor, incoming_damage, defense) ==
    [actor EXCEPT !.health =
        Max(0, actor.health - damage_after_defense(incoming_damage, defense))]

is_alive(actor) == actor.health > 0

add_potion(p) == [p EXCEPT !.num_potions = @ + 1]

add_escape_scroll(p) == [p EXCEPT !.num_escape_scrolls = @ + 1]

\* Inventory.remove_potion(amount = 1): [ok, player]
remove_potion(p) ==
    IF p.num_potions >= 1
    THEN [ok |-> TRUE, player |-> [p EXCEPT !.num_potions = @ - 1]]
    ELSE [ok |-> FALSE, player |-> p]

\* Inventory.remove_escape_scroll(amount = 1): [ok, player]
remove_escape_scroll(p) ==
    IF p.num_escape_scrolls >= 1
    THEN [ok |-> TRUE, player |-> [p EXCEPT !.num_escape_scrolls = @ - 1]]
    ELSE [ok |-> FALSE, player |-> p]

\* variant: the armor pieces do not count
get_defense_without_armor(p) ==
    LET defense_from_shield == IF p.has_shield THEN 3 ELSE 0
    IN  p.base_defense + defense_from_shield

get_defense(p) ==
    LET defense_from_armor == Cardinality(p.owned_armor) * ARMOR_DEFENSE_BONUS_PER_PIECE
        defense_from_shield == IF p.has_shield THEN 3 ELSE 0
    IN  p.base_defense + defense_from_armor + defense_from_shield

add_armor_piece(p, armor_piece) ==
    IF armor_piece \notin p.owned_armor
    THEN [p EXCEPT !.owned_armor = @ \cup {armor_piece}]
    ELSE p

\* variant: the result of remove_potion is ignored
use_potion_unchecked(p) ==
    [ok |-> TRUE,
     player |-> [p EXCEPT !.num_potions = @ - 1, !.health = p.max_health]]

\* Player.use_potion: [ok, player]
use_potion(p) ==
    LET removed == remove_potion(p)
    IN  IF removed.ok
        THEN [ok |-> TRUE, player |-> [removed.player EXCEPT !.health = p.max_health]]
        ELSE [ok |-> FALSE, player |-> p]

\* variant: a roll equal to the chance succeeds as well
attempt_flee_inclusive(p, flee_roll) ==
    LET removed == remove_escape_scroll(p)
    IN  IF removed.ok
        THEN [ok |-> TRUE, player |-> removed.player]
        ELSE [ok |-> RatLeq(flee_roll, FLEE_SUCCESS_CHANCE), player |-> p]

\* variant: the scroll is ignored, the roll always decides
attempt_flee_without_scroll(p, flee_roll) ==
    [ok |-> RatLess(flee_roll, FLEE_SUCCESS_CHANCE), player |-> p]

\* Player.attempt_flee(random_generator): [ok, player]; flee_roll is the
\* float the generator returns when no scroll is held
attempt_flee(p, flee_roll) ==
    LET removed == remove_escape_scroll(p)
    IN  IF removed.ok
        THEN [ok |-> TRUE, player |-> removed.player]
        ELSE [ok |-> RatLess(flee_roll, FLEE_SUCCESS_CHANCE), player |-> p]

holy_smite(p) == HOLY_SMITE_BASE_DAMAGE + p.strength

sword_slash(p) == SWORD_SLASH_BASE_DAMAGE + p.strength

shield_bash(p) == SHIELD_BASH_BASE_DAMAGE + p.strength

pray_for_restoration(p) == [p EXCEPT !.health = p.max_health]

\* variant: every ability is unlocked from the start
abilities_ungated(p) == <<"HOLY_SMITE", "SWORD_SLASH", "SHIELD_BASH">>

\* Player.abilities(): the keys of the mapping, in insertion order
abilities(p) ==
    <<"HOLY_SMITE">>
        \o (IF p.has_sword THEN <<"SWORD_SLASH">> ELSE <<>>)
        \o (IF p.has_shield THEN <<"SHIELD_BASH">> ELSE <<>>)

\* the callable the mapping of Player.abilities() holds for an action
ability_damage(p, action) ==
    CASE action = "HOLY_SMITE" -> holy_smite(p)
      [] action = "SWORD_SLASH" -> sword_slash(p)
      [] action = "SHIELD_BASH" -> shield_bash(p)

\* Monster.attack with the variance random.randint(0, 2) drew
attack(m, damage_variance) == m.strength + damage_variance

\* ACTION_WEAKNESS_MAP.get(action): the same-named weakness, "None" without one
ACTION_TO_WEAKNESS(action) ==
    IF action \in {"HOLY_SMITE", "SWORD_SLASH", "SHIELD_BASH"} THEN action ELSE "None"

\* variant: the bonus is added whatever the monster's weaknesses are
apply_weakness_bonus_unmatched(m, action, base_damage) ==
    base_damage + WEAKNESS_BONUS_DAMAGE

apply_weakness_bonus(m, action, base_damage) ==
    LET matching_weakness == ACTION_TO_WEAKNESS(action)
    IN  IF matching_weakness # "None" /\ matching_weakness \in m.weaknesses
        THEN base_damage + WEAKNESS_BONUS_DAMAGE
        ELSE base_damage

WeightedOption(label, weight) == [label |-> label, weight |-> weight]

-----------------------------------------------------------------------------
(* utils.py: select_weighted_random *)

RECURSIVE CumulativeWeight(_, _)
\* cumulative_weight after the first n options
CumulativeWeight(options, n) ==
    IF n = 0 THEN Rat(0, 1)
    ELSE RatAdd(CumulativeWeight(options, n - 1), options[n].weight)

\* variant: the last option whose cumulative weight reaches the value is taken
select_weighted_random_last_match(options, r) ==
    LET total_weight == CumulativeWeight(options, Len(options))
        random_value == RatMul(r, total_weight)
        within == {i \in 1..Len(options) :
                      RatLeq(random_value, CumulativeWeight(options, i))}
    IN  IF RatLeq(total_weight, Rat(0, 1)) THEN options[Len(options)].label
        ELSE IF within # {}
        THEN options[CHOOSE i \in within : \A j \in within : j <= i].label
        ELSE options[Len(options)].label

\* variant: the comparison with the cumulative weight is strict
select_weighted_random_strict(options, r) ==
    LET total_weight == CumulativeWeight(options, Len(options))
        random_value == RatMul(r, total_weight)
        within == {i \in 1..Len(options) :
                      RatLess(random_value, CumulativeWeight(options, i))}
    IN  IF RatLeq(total_weight, Rat(0, 1)) THEN options[Len(options)].label
        ELSE IF within # {} THEN options[MinOf(within)].label
        ELSE options[Len(options)].label

\* r is the float random_provider.random() returns (drawn only when the
\* total weight is positive)
select_weighted_random(options, r) ==
    LET total_weight == CumulativeWeight(options, Len(options))
        random_value == RatMul(r, total_weight)
        within == {i \in 1..Len(options) :
                      RatLeq(random_value, CumulativeWeight(options, i))}
    IN  IF RatLeq(total_weight, Rat(0, 1)) THEN options[Len(options)].label
        ELSE IF within # {} THEN options[MinOf(within)].label
        ELSE options[Len(options)].label

-----------------------------------------------------------------------------
(* drop_calculator.py: LootBucket, DropCalculator *)

\* variant: without armor the Armor weight is dropped, not moved to NoItem
create_buckets_losing_weight(p, remaining_armor) ==
    << [category |-> "NO_ITEM", weight |-> DROP_WEIGHTS.NO_ITEM],
       [category |-> "HEALTH_POTION", weight |-> DROP_WEIGHTS.HEALTH_POTION],
       [category |-> "ESCAPE_SCROLL", weight |-> DROP_WEIGHTS.ESCAPE_SCROLL],
       [category |-> "ARMOR",
        weight |-> IF remaining_armor # <<>> THEN DROP_WEIGHTS.ARMOR ELSE Rat(0, 1)] >>

create_buckets(p, remaining_armor) ==
    LET weight_armor == IF remaining_armor # <<>> THEN DROP_WEIGHTS.ARMOR ELSE Rat(0, 1)
        weight_no_item ==
            IF remaining_armor = <<>>
            THEN RatAdd(DROP_WEIGHTS.NO_ITEM, DROP_WEIGHTS.ARMOR)
            ELSE DROP_WEIGHTS.NO_ITEM
    IN  << [category |-> "NO_ITEM", weight |-> weight_no_item],
           [category |-> "HEALTH_POTION", weight |-> DROP_WEIGHTS.HEALTH_POTION],
           [category |-> "ESCAPE_SCROLL", weight |-> DROP_WEIGHTS.ESCAPE_SCROLL],
           [category |-> "ARMOR", weight |-> weight_armor] >>

IsArmorItem(item) == item \notin {"SHIELD", "SWORD"}

\* the armor pieces of _remaining_gear, in list order
RemainingArmor(gear) == SelectSeq(gear, IsArmorItem)

\* the bucket roll_item_drop selects when the random source returns r
chosen_bucket(p, gear, r) ==
    LET loot_buckets == create_buckets(p, RemainingArmor(gear))
        weighted_options ==
            [i \in 1..Len(loot_buckets) |->
                WeightedOption(loot_buckets[i].category, loot_buckets[i].weight)]
    IN  select_weighted_random(weighted_options, r)

\* variant: the armor bucket hands out the first remaining gear item, Shield
\* and Sword included
roll_item_drop_unfiltered(p, gear, r, armor_piece) ==
    LET bucket == chosen_bucket(p, gear, r)
    IN  IF bucket \in {"NO_ITEM", "HEALTH_POTION", "ESCAPE_SCROLL"}
        THEN [drop |-> bucket, gear |-> gear]
        ELSE IF bucket = "ARMOR" /\ gear # <<>>
        THEN [drop |-> Head(gear), gear |-> Tail(gear)]
        ELSE [drop |-> "NO_ITEM", gear |-> gear]

\* variant: the armor piece handed out stays in the gear list
roll_item_drop_keeping_gear(p, gear, r, armor_piece) ==
    LET remaining_armor == RemainingArmor(gear)
        bucket == chosen_bucket(p, gear, r)
    IN  IF bucket \in {"NO_ITEM", "HEALTH_POTION", "ESCAPE_SCROLL"}
        THEN [drop |-> bucket, gear |-> gear]
        ELSE IF bucket = "ARMOR" /\ remaining_armor # <<>>
        THEN [drop |-> armor_piece, gear |-> gear]
        ELSE [drop |-> "NO_ITEM", gear |-> gear]

\* variant: the gear list is rebuilt from all unique gear at every armor drop
roll_item_drop_regenerating(p, gear, r, armor_piece) ==
    LET remaining_armor == RemainingArmor(gear)
        bucket == chosen_bucket(p, gear, r)
    IN  IF bucket \in {"NO_ITEM", "HEALTH_POTION", "ESCAPE_SCROLL"}
        THEN [drop |-> bucket, gear |-> gear]
        ELSE IF bucket = "ARMOR" /\ remaining_armor # <<>>
        THEN [drop |-> armor_piece, gear |-> ListRemove(unique_gear, armor_piece)]
        ELSE [drop |-> "NO_ITEM", gear |-> gear]

\* DropCalculator.roll_item_drop(player) on _remaining_gear = gear, with r the
\* float and armor_piece the choice the random source returns: [drop, gear]
roll_item_drop(p, gear, r, armor_piece) ==
    LET remaining_armor == RemainingArmor(gear)
        bucket == chosen_bucket(p, gear, r)
    IN  IF bucket \in {"NO_ITEM", "HEALTH_POTION", "ESCAPE_SCROLL"}
        THEN [drop |-> bucket, gear |-> gear]
        ELSE IF bucket = "ARMOR" /\ remaining_armor # <<>>
        THEN [drop |-> armor_piece, gear |-> ListRemove(gear, armor_piece)]
        ELSE [drop |-> "NO_ITEM", gear |-> gear]

\* variant: no scripted unlock, every drop is rolled
get_drop_for_monster_unscripted(defeated_count, p, gear, r, armor_piece) ==
    roll_item_drop(p, gear, r, armor_piece)

\* DropCalculator.get_drop_for_monster(defeated_count, player): [drop, gear]
get_drop_for_monster(defeated_count, p, gear, r, armor_piece) ==
    IF defeated_count = 0 /\ ~p.has_shield /\ InList("SHIELD", gear)
    THEN [drop |-> "SHIELD", gear |-> ListRemove(gear, "SHIELD")]
    ELSE IF defeated_count = 2 /\ ~p.has_sword /\ InList("SWORD", gear)
    THEN [drop |-> "SWORD", gear |-> ListRemove(gear, "SWORD")]
    ELSE roll_item_drop(p, gear, r, armor_piece)

\* the pairs <<random(), choice(remaining_armor)>> the random source may
\* return to one roll: choice is called only after the ARMOR bucket was
\* selected with armor remaining ("None": not called)
RollDraws(p, gear) ==
    UNION {{<<r, c>> :
               c \in IF chosen_bucket(p, gear, r) = "ARMOR" /\ RemainingArmor(gear) # <<>>
                     THEN ChoiceOutputs(RemainingArmor(gear))
                     ELSE {"None"}} :
           r \in RandomOutputs}

\* every result roll_item_drop can give on gear, over the random outputs
RollOutcomes(p, gear) ==
    {roll_item_drop(p, gear, d[1], d[2]) : d \in RollDraws(p, gear)}

\* every result get_drop_for_monster can give on gear, over the random outputs
DropOutcomes(defeated_count, p, gear) ==
    {get_drop_for_monster(defeated_count, p, gear, d[1], d[2]) : d \in RollDraws(p, gear)}

-----------------------------------------------------------------------------
(* History variables *)

NoLast ==
    [event |-> "init", action |-> "None", drop |-> "None",
     shield_due |-> FALSE, sword_due |-> FALSE, final_damage |-> 0,
     is_weakness_hit |-> FALSE, monster_died |-> FALSE, flee_succeeded |-> FALSE,
     scroll_used |-> FALSE, narrating |-> "None", incoming_damage |-> 0,
     defense |-> 0, options |-> <<>>, draw |-> Rat(0, 1), label |-> "None",
     raised |-> FALSE, weight |-> Rat(0, 1), max_health |-> 0,
     returned |-> FALSE]

\* the call is get_drop_for_monster(0, a player without shield)
ShieldDue(defeated_count, p) == defeated_count = 0 /\ ~p.has_shield

\* the call is get_drop_for_monster(2, a player without sword)
SwordDue(defeated_count, p) == defeated_count = 2 /\ ~p.has_sword

\* the drop engine returned drop: count it when it is unique gear (2 = twice or more)
Emit(e, drop) ==
    IF drop \in UniqueGearKinds
    THEN [e EXCEPT ![drop] = IF @ >= 2 THEN 2 ELSE @ + 1]
    ELSE e

-----------------------------------------------------------------------------
(* Initial state: GameSystem.__init__ (systems.py), the same fields and      *)
(* values as GameEngine.__init__ (game_engine.py)                            *)

Init ==
    /\ player = [NewPlayer(PLAYER_MAX_HEALTH, PLAYER_BASE_STRENGTH, PLAYER_BASE_DEFENSE)
                    EXCEPT !.health = 3]
    /\ current_monster = NoMonster
    /\ remaining_gear = unique_gear
    /\ monsters_defeated = 0
    /\ game_won = FALSE
    /\ emitted = [k \in UniqueGearKinds |-> 0]
    /\ last = NoLast

-----------------------------------------------------------------------------
(* systems.py: MonsterGenerator (the generator GameSystem uses) *)

\* MonsterTemplate: hp = 0 and strength = 0 model None (both are falsy in
\* "template.hp or randint(...)")
systems_templates ==
    << [name |-> "Skeleton", weaknesses |-> {"HOLY_SMITE", "SHIELD_BASH"},
        hp |-> 0, strength |-> 0, is_boss |-> FALSE],
       [name |-> "Goblin Bandit", weaknesses |-> {"SWORD_SLASH", "SHIELD_BASH"},
        hp |-> 0, strength |-> 0, is_boss |-> FALSE],
       [name |-> "Giant Rat", weaknesses |-> {"SWORD_SLASH"},
        hp |-> 0, strength |-> 0, is_boss |-> FALSE],
       [name |-> "Wraith", weaknesses |-> {"HOLY_SMITE"},
        hp |-> 0, strength |-> 0, is_boss |-> FALSE] >>

\* MonsterGenerator.generate_monster() with the template choice() returned
\* and the two randint() results (used for a stat the template leaves unset)
systems_generate_monster(monster_template, hp_draw, strength_draw) ==
    NewMonster(IF monster_template.hp # 0 THEN monster_template.hp ELSE hp_draw,
               IF monster_template.strength # 0 THEN monster_template.strength
               ELSE strength_draw,
               monster_template.name, monster_template.weaknesses,
               monster_template.is_boss)

systems_generate_boss == NewMonster(BOSS_HP, BOSS_STRENGTH, "Grave Tyrant", {}, TRUE)

\* every regular monster the generator can return, over the random outputs
RegularMonsters ==
    {systems_generate_monster(t, h, s) :
        t \in ChoiceOutputs(systems_templates),
        h \in RandintOutputs(MONSTER_HEALTH_MIN, MONSTER_HEALTH_MAX),
        s \in RandintOutputs(MONSTER_STRENGTH_MIN, MONSTER_STRENGTH_MAX)}

\* variant: the boss test without the threshold
systems_boss_spawns_ungated(defeated, r) == RatLess(r, BOSS_SPAWN_CHANCE)

\* the boss test of GameSystem._explore_room: random() is drawn only when the
\* threshold is reached
systems_boss_spawns(defeated, r) ==
    defeated >= BOSS_SPAWN_THRESHOLD /\ RatLess(r, BOSS_SPAWN_CHANCE)

\* every monster a monster room can hold at this number of defeats
systems_spawn_outcomes(defeated) ==
    UNION {IF systems_boss_spawns(defeated, r) THEN {systems_generate_boss}
           ELSE RegularMonsters : r \in RandomOutputs}

-----------------------------------------------------------------------------
(* systems.py: GameSystem *)

\* GameSystem._select_random_room_type with the float random() returned
select_random_room_type(r) ==
    select_weighted_random(
        [i \in 1..Len(ROOM_TYPE_WEIGHTS) |->
            WeightedOption(ROOM_TYPE_WEIGHTS[i].name, ROOM_TYPE_WEIGHTS[i].weight)],
        r)

RoomTypes == {select_random_room_type(r) : r \in RandomOutputs}

has_all_gear(p) ==
    IF ~p.has_shield \/ ~p.has_sword THEN FALSE
    ELSE Cardinality(p.owned_armor) = Cardinality(ArmorKinds)

\* variant: the Shield and Sword branches fall through to the armor branch
apply_loot_unlocks_fall_through(p, drop) ==
    IF drop = "NO_ITEM" THEN p
    ELSE IF drop = "HEALTH_POTION" THEN add_potion(p)
    ELSE IF drop = "ESCAPE_SCROLL" THEN add_escape_scroll(p)
    ELSE IF drop = "SHIELD" THEN add_armor_piece([p EXCEPT !.has_shield = TRUE], drop)
    ELSE IF drop = "SWORD" THEN add_armor_piece([p EXCEPT !.has_sword = TRUE], drop)
    ELSE add_armor_piece(p, drop)

\* GameSystem._apply_loot(drop): the player afterwards
apply_loot(p, drop) ==
    IF drop = "NO_ITEM" THEN p
    ELSE IF drop = "HEALTH_POTION" THEN add_potion(p)
    ELSE IF drop = "ESCAPE_SCROLL" THEN add_escape_scroll(p)
    ELSE IF drop = "SHIELD" THEN [p EXCEPT !.has_shield = TRUE]
    ELSE IF drop = "SWORD" THEN [p EXCEPT !.has_sword = TRUE]
    ELSE add_armor_piece(p, drop)

\* GameSystem._get_available_combat_actions
get_available_combat_actions(p) ==
    abilities(p)
        \o (IF p.health < p.max_health /\ p.num_potions > 0 THEN <<"USE_POTION">> ELSE <<>>)
        \o <<"FLEE">>

\* GameSystem._calculate_player_damage
calculate_player_damage(p, action, m) ==
    IF ~InList(action, abilities(p)) THEN 0
    ELSE apply_weakness_bonus(m, action, ability_damage(p, action))

\* variant: the run loop tests only game_won
running_after_death == ~game_won

\* the loop test of GameSystem.start_game
Running == is_alive(player) /\ ~game_won

\* the part of the state space the model explores (monster rooms are entered
\* while monsters_defeated <= MaxDefeated, so that the boss can be met)
WithinBounds(p, gear) ==
    /\ p.num_potions <= MaxPotions
    /\ p.num_escape_scrolls <= MaxScrolls
    /\ Cardinality(ArmorKinds) - Len(RemainingArmor(gear)) <= MaxArmorDrops

\* _exploration_phase, choice "pray" (offered below full health)
Pray ==
    /\ Running
    /\ current_monster = NoMonster
    /\ player.health < player.max_health
    /\ player' = pray_for_restoration(player)
    /\ last' = [NoLast EXCEPT !.event = "pray"]
    /\ UNCHANGED <<current_monster, remaining_gear, monsters_defeated, game_won, emitted>>

\* variant: resting in an empty room restores the player
EmptyRoomRestoring ==
    /\ Running
    /\ current_monster = NoMonster
    /\ "empty" \in RoomTypes
    /\ player' = pray_for_restoration(player)
    /\ last' = [NoLast EXCEPT !.event = "empty_room"]
    /\ UNCHANGED <<current_monster, remaining_gear, monsters_defeated, game_won,
                   emitted>>

\* _exploration_phase, choice "proceed": _explore_room draws an empty room
EmptyRoom ==
    /\ Running
    /\ current_monster = NoMonster
    /\ "empty" \in RoomTypes
    /\ last' = [NoLast EXCEPT !.event = "empty_room"]
    /\ UNCHANGED <<player, current_monster, remaining_gear, monsters_defeated,
                   game_won, emitted>>

\* _explore_room draws a loot room: one roll_item_drop, applied at once
LootRoom ==
    /\ Running
    /\ current_monster = NoMonster
    /\ "loot" \in RoomTypes
    /\ \E out \in RollOutcomes(player, remaining_gear) :
        /\ remaining_gear' = out.gear
        /\ emitted' = Emit(emitted, out.drop)
        /\ player' = apply_loot(player, out.drop)
        /\ last' = [NoLast EXCEPT !.event = "loot_room", !.drop = out.drop]
    /\ WithinBounds(player', remaining_gear')
    /\ UNCHANGED <<current_monster, monsters_defeated, game_won>>

\* variant: the monster enters combat without its drop being stored on it
MonsterRoomWithoutDrop ==
    /\ Running
    /\ current_monster = NoMonster
    /\ "monster" \in RoomTypes
    /\ monsters_defeated <= MaxDefeated
    /\ \E m \in systems_spawn_outcomes(monsters_defeated) :
       \E out \in DropOutcomes(monsters_defeated, player, remaining_gear) :
        /\ current_monster' = m
        /\ remaining_gear' = out.gear
        /\ emitted' = Emit(emitted, out.drop)
        /\ last' = [NoLast EXCEPT !.event = "encounter", !.drop = out.drop,
                        !.shield_due = ShieldDue(monsters_defeated, player),
                        !.sword_due = SwordDue(monsters_defeated, player)]
    /\ WithinBounds(player, remaining_gear')
    /\ UNCHANGED <<player, monsters_defeated, game_won>>

\* _explore_room draws a monster room: boss or regular monster, then its drop
MonsterRoom ==
    /\ Running
    /\ current_monster = NoMonster
    /\ "monster" \in RoomTypes
    /\ monsters_defeated <= MaxDefeated
    /\ \E m \in systems_spawn_outcomes(monsters_defeated) :
       \E out \in DropOutcomes(monsters_defeated, player, remaining_gear) :
        /\ current_monster' = [m EXCEPT !.item_drop = out.drop]
        /\ remaining_gear' = out.gear
        /\ emitted' = Emit(emitted, out.drop)
        /\ last' = [NoLast EXCEPT !.event = "encounter", !.drop = out.drop,
                        !.shield_due = ShieldDue(monsters_defeated, player),
                        !.sword_due = SwordDue(monsters_defeated, player)]
    /\ WithinBounds(player, remaining_gear')
    /\ UNCHANGED <<player, monsters_defeated, game_won>>

\* the loop test of GameSystem._combat_phase, entered with a current monster
InCombat == Running /\ current_monster # NoMonster /\ is_alive(current_monster)

\* one iteration of _combat_phase, action USE_POTION: the narration only
TurnUsePotion ==
    /\ InCombat
    /\ InList("USE_POTION", get_available_combat_actions(player))
    /\ last' = [NoLast EXCEPT !.event = "turn", !.action = "USE_POTION"]
    /\ UNCHANGED <<player, current_monster, remaining_gear, monsters_defeated,
                   game_won, emitted>>

\* variant: a successful flee hands out the monster's drop
TurnFleeWithReward ==
    /\ InCombat
    /\ InList("FLEE", get_available_combat_actions(player))
    /\ \E fled \in {attempt_flee(player, r) : r \in RandomOutputs} :
        /\ player' = IF fled.ok /\ current_monster.item_drop # "None"
                     THEN apply_loot(fled.player, current_monster.item_drop)
                     ELSE fled.player
        /\ current_monster' = IF fled.ok THEN NoMonster ELSE current_monster
        /\ last' = [NoLast EXCEPT !.event = "turn", !.action = "FLEE",
                        !.flee_succeeded = fled.ok,
                        !.scroll_used =
                            fled.player.num_escape_scrolls < player.num_escape_scrolls]
    /\ UNCHANGED <<remaining_gear, monsters_defeated, game_won, emitted>>

\* one iteration of _combat_phase, action FLEE
TurnFlee ==
    /\ InCombat
    /\ InList("FLEE", get_available_combat_actions(player))
    /\ \E fled \in {attempt_flee(player, r) : r \in RandomOutputs} :
        /\ player' = fled.player
        /\ current_monster' = IF fled.ok THEN NoMonster ELSE current_monster
        /\ last' = [NoLast EXCEPT !.event = "turn", !.action = "FLEE",
                        !.flee_succeeded = fled.ok,
                        !.scroll_used =
                            fled.player.num_escape_scrolls < player.num_escape_scrolls]
    /\ UNCHANGED <<remaining_gear, monsters_defeated, game_won, emitted>>

\* variant: every defeated monster ends the run in victory
handle_monster_defeat_every_kill_wins(m, p, won, gear, rolled) ==
    [player |-> IF m.item_drop # "None" THEN apply_loot(p, m.item_drop)
                ELSE apply_loot(p, rolled.drop),
     game_won |-> TRUE,
     gear |-> IF m.item_drop # "None" THEN gear ELSE rolled.gear,
     rolled |-> IF m.item_drop # "None" THEN "None" ELSE rolled.drop]

\* variant: the defeat is narrated and the boss recognised, but no loot applied
handle_monster_defeat_without_loot(m, p, won, gear, rolled) ==
    [player |-> p, game_won |-> (won \/ m.is_boss), gear |-> gear, rolled |-> "None"]

\* _handle_monster_defeat(monster): [player, game_won, gear, drop] afterwards;
\* rolled is what roll_item_drop gives, used only for a monster without a drop
handle_monster_defeat(m, p, won, gear, rolled) ==
    IF m.is_boss THEN [player |-> p, game_won |-> TRUE, gear |-> gear, rolled |-> "None"]
    ELSE IF m.item_drop # "None"
    THEN [player |-> apply_loot(p, m.item_drop), game_won |-> won, gear |-> gear,
          rolled |-> "None"]
    ELSE [player |-> apply_loot(p, rolled.drop), game_won |-> won, gear |-> rolled.gear,
          rolled |-> rolled.drop]

\* variant: the monster attacks whether it survived or not
monster_retaliation_unconditional(p, m, damage_variance) ==
    take_damage(p, attack(m, damage_variance), get_defense(p))

\* "if not monster_died": a surviving monster attacks, a dead one does not;
\* the player afterwards
monster_retaliation(p, m, damage_variance) ==
    IF ~is_alive(m) THEN p
    ELSE take_damage(p, attack(m, damage_variance), get_defense(p))

\* one iteration of _combat_phase, a damage action (Holy Smite, Sword Slash,
\* Shield Bash): the hit, then the monster's defeat or its retaliation
TurnDamage ==
    /\ InCombat
    /\ \E selected_action \in ChoiceOutputs(abilities(player)) :
        LET base_damage == ability_damage(player, selected_action)
            final_damage == calculate_player_damage(player, selected_action, current_monster)
            matching_weakness == ACTION_TO_WEAKNESS(selected_action)
            is_weakness == /\ matching_weakness # "None"
                           /\ matching_weakness \in current_monster.weaknesses
                           /\ final_damage > base_damage
            hit == take_damage(current_monster, final_damage, 0)
            monster_died == ~is_alive(hit)
            turn == [NoLast EXCEPT !.event = "turn", !.action = selected_action,
                                   !.final_damage = final_damage,
                                   !.is_weakness_hit = is_weakness,
                                   !.monster_died = monster_died]
        IN  IF monster_died
            THEN \E rolled \in IF hit.item_drop # "None" \/ hit.is_boss
                               THEN {[drop |-> "None", gear |-> remaining_gear]}
                               ELSE RollOutcomes(player, remaining_gear) :
                    LET after == handle_monster_defeat(
                                     hit, monster_retaliation(player, hit, 0),
                                     game_won, remaining_gear, rolled)
                    IN  /\ monsters_defeated' = monsters_defeated + 1
                        /\ player' = after.player
                        /\ game_won' = after.game_won
                        /\ remaining_gear' = after.gear
                        /\ emitted' = Emit(emitted, after.rolled)
                        /\ current_monster' = NoMonster
                        /\ last' = turn
            ELSE \E damage_variance \in AttackVariance :
                    /\ player' = monster_retaliation(player, hit, damage_variance)
                    /\ current_monster' = hit
                    /\ last' = turn
                    /\ UNCHANGED <<monsters_defeated, game_won, remaining_gear, emitted>>
    /\ WithinBounds(player', remaining_gear')

Next == Pray \/ EmptyRoom \/ LootRoom \/ MonsterRoom \/ TurnUsePotion \/ TurnFlee
            \/ TurnDamage

Spec == Init /\ [][Next]_vars

\* the run under a random source whose room draws always select a monster
\* room (the player's choices and the other draws stay free)
NextMonsterRooms == Pray \/ MonsterRoom \/ TurnUsePotion \/ TurnFlee \/ TurnDamage

SpecMonsterRooms == Init /\ [][NextMonsterRooms]_vars

-----------------------------------------------------------------------------
(* SpecNarrator: the GameSystem run with a story teller that may raise.      *)
(* _generate_narrative catches the exception and calls sys.exit(1), so the  *)
(* state of a failed call is the state the handler had reached when it      *)
(* invoked the narrator; last.narrating names the event it was narrating.   *)

\* sys.exit(1) in _generate_narrative: the process has ended
Exited == last.event = "narrator_failure"

NarratorFailure(narrating, drop) ==
    [NoLast EXCEPT !.event = "narrator_failure", !.narrating = narrating,
                   !.drop = drop]

\* choice "pray": describe_pray raises (pray_for_restoration comes after it)
PrayNarratorFails ==
    /\ Running /\ ~Exited
    /\ current_monster = NoMonster
    /\ player.health < player.max_health
    /\ last' = NarratorFailure("pray", "None")
    /\ UNCHANGED <<player, current_monster, remaining_gear, monsters_defeated,
                   game_won, emitted>>

\* empty room: describe_empty_room raises
EmptyRoomNarratorFails ==
    /\ Running /\ ~Exited
    /\ current_monster = NoMonster
    /\ "empty" \in RoomTypes
    /\ last' = NarratorFailure("empty_room", "None")
    /\ UNCHANGED <<player, current_monster, remaining_gear, monsters_defeated,
                   game_won, emitted>>

\* loot room: roll_item_drop has run, describe_loot_find raises (_apply_loot
\* comes after it)
LootRoomNarratorFails ==
    /\ Running /\ ~Exited
    /\ current_monster = NoMonster
    /\ "loot" \in RoomTypes
    /\ \E out \in RollOutcomes(player, remaining_gear) :
        /\ remaining_gear' = out.gear
        /\ emitted' = Emit(emitted, out.drop)
        /\ last' = NarratorFailure("loot", out.drop)
        /\ WithinBounds(apply_loot(player, out.drop), remaining_gear')
    /\ UNCHANGED <<player, current_monster, monsters_defeated, game_won>>

\* monster room: the monster and its drop are set, describe_encounter raises
EncounterNarratorFails ==
    /\ Running /\ ~Exited
    /\ current_monster = NoMonster
    /\ "monster" \in RoomTypes
    /\ monsters_defeated <= MaxDefeated
    /\ \E m \in systems_spawn_outcomes(monsters_defeated) :
       \E out \in DropOutcomes(monsters_defeated, player, remaining_gear) :
        /\ current_monster' = [m EXCEPT !.item_drop = out.drop]
        /\ remaining_gear' = out.gear
        /\ emitted' = Emit(emitted, out.drop)
        /\ last' = NarratorFailure("encounter", out.drop)
    /\ WithinBounds(player, remaining_gear')
    /\ UNCHANGED <<player, monsters_defeated, game_won>>

\* combat, USE_POTION: describe_potion_use raises
PotionNarratorFails ==
    /\ InCombat /\ ~Exited
    /\ InList("USE_POTION", get_available_combat_actions(player))
    /\ last' = NarratorFailure("potion", "None")
    /\ UNCHANGED <<player, current_monster, remaining_gear, monsters_defeated,
                   game_won, emitted>>

\* combat, FLEE: attempt_flee has run, describe_flee raises (current_monster
\* is cleared after it)
FleeNarratorFails ==
    /\ InCombat /\ ~Exited
    /\ InList("FLEE", get_available_combat_actions(player))
    /\ \E fled \in {attempt_flee(player, r) : r \in RandomOutputs} :
        /\ player' = fled.player
        /\ last' = [NarratorFailure("flee", "None") EXCEPT
                        !.flee_succeeded = fled.ok]
    /\ UNCHANGED <<current_monster, remaining_gear, monsters_defeated, game_won,
                   emitted>>

\* combat, a damage action the monster survives: hit and retaliation are
\* done, describe_combat_turn raises
CombatTurnNarratorFails ==
    /\ InCombat /\ ~Exited
    /\ \E selected_action \in ChoiceOutputs(abilities(player)) :
        LET hit == take_damage(current_monster,
                       calculate_player_damage(player, selected_action, current_monster), 0)
        IN  /\ is_alive(hit)
            /\ \E damage_variance \in AttackVariance :
                /\ player' = monster_retaliation(player, hit, damage_variance)
                /\ current_monster' = hit
                /\ last' = [NarratorFailure("combat", "None") EXCEPT
                                !.action = selected_action]
    /\ UNCHANGED <<remaining_gear, monsters_defeated, game_won, emitted>>

\* combat, the damage action that kills the monster: the hit and
\* monsters_defeated += 1 are done, describe_victory raises (the boss test,
\* _apply_loot and current_monster = None come after it)
VictoryNarratorFails ==
    /\ InCombat /\ ~Exited
    /\ \E selected_action \in ChoiceOutputs(abilities(player)) :
        LET hit == take_damage(current_monster,
                       calculate_player_damage(player, selected_action, current_monster), 0)
        IN  /\ ~is_alive(hit)
            /\ current_monster' = hit
            /\ monsters_defeated' = monsters_defeated + 1
            /\ last' = [NarratorFailure("victory", hit.item_drop) EXCEPT
                            !.action = selected_action, !.monster_died = TRUE]
    /\ UNCHANGED <<player, remaining_gear, game_won, emitted>>

NextNarrator ==
    \/ ~Exited /\ Next
    \/ PrayNarratorFails \/ EmptyRoomNarratorFails \/ LootRoomNarratorFails
    \/ EncounterNarratorFails \/ PotionNarratorFails \/ FleeNarratorFails
    \/ CombatTurnNarratorFails \/ VictoryNarratorFails

SpecNarrator == Init /\ [][NextNarrator]_vars

-----------------------------------------------------------------------------
(* SpecDrop: one DropCalculator instance under any sequence of calls, with   *)
(* any defeated_count, any equipment flags of the player argument and any    *)
(* random outputs                                                            *)

CallGetDropForMonster ==
    \E defeated_count \in 0..MaxDefeatedCountArg, hs \in BOOLEAN, hw \in BOOLEAN :
        LET p == [player EXCEPT !.has_shield = hs, !.has_sword = hw]
        IN  \E out \in DropOutcomes(defeated_count, p, remaining_gear) :
                /\ remaining_gear' = out.gear
                /\ emitted' = Emit(emitted, out.drop)
                /\ last' = [NoLast EXCEPT !.event = "get_drop_for_monster",
                                          !.drop = out.drop,
                                          !.shield_due = ShieldDue(defeated_count, p),
                                          !.sword_due = SwordDue(defeated_count, p)]
                /\ UNCHANGED <<player, current_monster, monsters_defeated, game_won>>

CallRollItemDrop ==
    \E out \in RollOutcomes(player, remaining_gear) :
        /\ remaining_gear' = out.gear
        /\ emitted' = Emit(emitted, out.drop)
        /\ last' = [NoLast EXCEPT !.event = "roll_item_drop", !.drop = out.drop]
        /\ UNCHANGED <<player, current_monster, monsters_defeated, game_won>>

NextDrop == CallGetDropForMonster \/ CallRollItemDrop

SpecDrop == Init /\ [][NextDrop]_vars

-----------------------------------------------------------------------------
(* SpecDamage: Actor.take_damage called on the player and on a monster with  *)
(* any integers, negative ones included                                      *)

\* player.take_damage(incoming_damage, defense)
CallTakeDamagePlayer ==
    \E incoming_damage \in -MaxDamageArg..MaxDamageArg,
       defense \in -MaxDefenseArg..MaxDefenseArg :
        /\ player' = take_damage(player, incoming_damage, defense)
        /\ last' = [NoLast EXCEPT !.event = "take_damage_player",
                        !.incoming_damage = incoming_damage, !.defense = defense,
                        !.final_damage = damage_after_defense(incoming_damage, defense)]
        /\ UNCHANGED <<current_monster, remaining_gear, monsters_defeated, game_won,
                       emitted>>

\* monster.take_damage(incoming_damage, defense); the first call is made on a
\* monster as generate_monster returns it
CallTakeDamageMonster ==
    \E incoming_damage \in -MaxDamageArg..MaxDamageArg,
       defense \in -MaxDefenseArg..MaxDefenseArg,
       m \in IF current_monster = NoMonster THEN RegularMonsters ELSE {current_monster} :
        /\ current_monster' = take_damage(m, incoming_damage, defense)
        /\ last' = [NoLast EXCEPT !.event = "take_damage_monster",
                        !.incoming_damage = incoming_damage, !.defense = defense,
                        !.final_damage = damage_after_defense(incoming_damage, defense)]
        /\ UNCHANGED <<player, remaining_gear, monsters_defeated, game_won, emitted>>

NextDamage == CallTakeDamagePlayer \/ CallTakeDamageMonster

SpecDamage == Init /\ [][NextDamage]_vars

-----------------------------------------------------------------------------
(* SpecSelect: select_weighted_random called with the lists the run passes   *)
(* it and with sampled lists, zero weights and zero totals included          *)

\* the list _select_random_room_type builds from config.ROOM_TYPE_WEIGHTS
room_weighted_options ==
    [i \in 1..Len(ROOM_TYPE_WEIGHTS) |->
        WeightedOption(ROOM_TYPE_WEIGHTS[i].name, ROOM_TYPE_WEIGHTS[i].weight)]

\* the list roll_item_drop builds from LootBucket.create_buckets
drop_weighted_options(p, remaining_armor) ==
    LET loot_buckets == create_buckets(p, remaining_armor)
    IN  [i \in 1..Len(loot_buckets) |->
            WeightedOption(loot_buckets[i].category, loot_buckets[i].weight)]

SampledWeights == {Rat(0, 1), Rat(1, 5), Rat(1, 2)}

OptionLabels == <<"first", "second", "third", "fourth">>

SampledOptions ==
    UNION {{[i \in 1..n |-> WeightedOption(OptionLabels[i], w[i])] :
               w \in [1..n -> SampledWeights]} :
           n \in 1..MaxOptions}

SelectInputs ==
    SampledOptions
        \cup {room_weighted_options,
              drop_weighted_options(player, RemainingArmor(unique_gear)),
              drop_weighted_options(player, <<>>)}

\* select_weighted_random(options, random_provider), the provider returning draw
CallSelectWeightedRandom ==
    \E options \in SelectInputs, draw \in RandomOutputs :
        /\ last' = [NoLast EXCEPT !.event = "select_weighted_random",
                        !.options = options, !.draw = draw,
                        !.label = select_weighted_random(options, draw)]
        /\ UNCHANGED <<player, current_monster, remaining_gear, monsters_defeated,
                       game_won, emitted>>

NextSelect == CallSelectWeightedRandom

SpecSelect == Init /\ [][NextSelect]_vars

-----------------------------------------------------------------------------
(* SpecLoot: GameSystem._apply_loot called with any drops, in any order *)

\* _apply_loot(drop) for any DropResult (potions and scrolls kept within the
\* explored bounds)
CallApplyLoot ==
    \E drop \in DropResult :
        /\ player' = apply_loot(player, drop)
        /\ player'.num_potions <= MaxPotions
        /\ player'.num_escape_scrolls <= MaxScrolls
        /\ last' = [NoLast EXCEPT !.event = "apply_loot", !.drop = drop]
        /\ UNCHANGED <<current_monster, remaining_gear, monsters_defeated, game_won,
                       emitted>>

NextLoot == CallApplyLoot

SpecLoot == Init /\ [][NextLoot]_vars

-----------------------------------------------------------------------------
(* monster_generator.py: MonsterGenerator *)


\* self._templates; hp = 0 and strength = 0 model None
templates ==
    << [name |-> "Skeleton", weaknesses |-> {"HOLY_SMITE"},
        hp |-> 0, strength |-> 0, is_boss |-> FALSE],
       [name |-> "Goblin Bandit", weaknesses |-> {"SWORD_SLASH"},
        hp |-> 0, strength |-> 0, is_boss |-> FALSE],
       [name |-> "Giant Rat", weaknesses |-> {"SHIELD_BASH"},
        hp |-> 0, strength |-> 0, is_boss |-> FALSE],
       [name |-> "Wraith", weaknesses |-> {"HOLY_SMITE"},
        hp |-> 0, strength |-> 0, is_boss |-> FALSE] >>

\* variant: the drawn strength is added to the monster's health
create_regular_monster_scaled(monster_template, hp_draw, strength_draw) ==
    NewMonster(hp_draw + strength_draw, strength_draw, monster_template.name,
               monster_template.weaknesses, monster_template.is_boss)

\* _create_regular_monster with the template choice() returned and the two
\* randint() results
create_regular_monster(monster_template, hp_draw, strength_draw) ==
    LET max_health_points ==
            IF monster_template.hp # 0 THEN monster_template.hp ELSE hp_draw
        attack_strength ==
            IF monster_template.strength # 0 THEN monster_template.strength
            ELSE strength_draw
    IN  NewMonster(max_health_points, attack_strength, monster_template.name,
                   monster_template.weaknesses, monster_template.is_boss)

\* _create_boss
create_boss == NewMonster(BOSS_HP, BOSS_STRENGTH, "Grave Tyrant", {}, TRUE)

\* generate_monster(monsters_defeated) with the float random() returns (drawn
\* only when the threshold is reached) and the draws of a regular monster
generate_monster(defeated, r, monster_template, hp_draw, strength_draw) ==
    IF defeated >= BOSS_SPAWN_THRESHOLD /\ RatLess(r, BOSS_SPAWN_CHANCE)
    THEN create_boss
    ELSE create_regular_monster(monster_template, hp_draw, strength_draw)

\* every monster generate_monster(defeated) can return, over the random outputs
GenerateOutcomes(defeated) ==
    {generate_monster(defeated, r, t, h, s) :
        r \in RandomOutputs,
        t \in ChoiceOutputs(templates),
        h \in RandintOutputs(MONSTER_HEALTH_MIN, MONSTER_HEALTH_MAX),
        s \in RandintOutputs(MONSTER_STRENGTH_MIN, MONSTER_STRENGTH_MAX)}

-----------------------------------------------------------------------------
(* combat_engine.py: CombatEngine *)

\* variant: the potion is offered whenever one is held, injured or not
get_available_actions_any_health(p) ==
    abilities(p)
        \o (IF p.num_potions > 0 THEN <<"USE_POTION">> ELSE <<>>)
        \o <<"FLEE">>

get_available_actions(p) ==
    LET options == abilities(p)
        with_potion ==
            IF p.health < p.max_health /\ p.num_potions > 0
            THEN options \o <<"USE_POTION">>
            ELSE options
    IN  with_potion \o <<"FLEE">>

\* CombatEngine.calculate_player_damage(action, player, monster)
ce_calculate_player_damage(action, p, m) ==
    IF ~InList(action, abilities(p)) THEN 0
    ELSE apply_weakness_bonus(m, action, ability_damage(p, action))

\* the result of a turn that has not filled a field of the dictionary
NoTurn(p, m) ==
    [player |-> p, monster |-> m, non_damage_action |-> FALSE,
     flee_succeeded |-> FALSE, final_damage |-> 0, is_weakness_hit |-> FALSE,
     monster_died |-> FALSE, raised |-> FALSE]

\* variant: the monster attacks on a potion turn
potion_turn_with_retaliation(p, m) ==
    [NoTurn(take_damage(p, attack(m, 0), get_defense(p)), m)
        EXCEPT !.non_damage_action = TRUE]

\* execute_combat_turn, USE_POTION: the narration, then the return
potion_turn(p, m) == [NoTurn(p, m) EXCEPT !.non_damage_action = TRUE]

\* variant: the monster attacks after a failed flee
flee_turn_with_retaliation(p, m, flee_roll) ==
    LET fled == attempt_flee(p, flee_roll)
        struck == IF fled.ok THEN fled.player
                  ELSE take_damage(fled.player, attack(m, 0), get_defense(fled.player))
    IN  [NoTurn(struck, m) EXCEPT !.non_damage_action = TRUE,
                                  !.flee_succeeded = fled.ok]

\* execute_combat_turn, FLEE
flee_turn(p, m, flee_roll) ==
    LET fled == attempt_flee(p, flee_roll)
    IN  [NoTurn(fled.player, m) EXCEPT !.non_damage_action = TRUE,
                                       !.flee_succeeded = fled.ok]

\* execute_combat_turn, a damage action (Holy Smite, Shield Bash, Sword Slash)
damage_turn(p, m, selected_action, damage_variance) ==
    LET base_damage == ability_damage(p, selected_action)
        final_damage == ce_calculate_player_damage(selected_action, p, m)
        matching_weakness == ACTION_TO_WEAKNESS(selected_action)
        is_weakness == /\ matching_weakness # "None"
                       /\ matching_weakness \in m.weaknesses
                       /\ final_damage > base_damage
        hit == take_damage(m, final_damage, 0)
        monster_died == ~is_alive(hit)
        struck == IF ~monster_died
                  THEN take_damage(p, attack(hit, damage_variance), get_defense(p))
                  ELSE p
    IN  [NoTurn(struck, hit) EXCEPT !.final_damage = final_damage,
                                    !.is_weakness_hit = is_weakness,
                                    !.monster_died = monster_died]

\* variant: the ability is not looked up in the player's mapping, the turn
\* goes on with the damage calculate_player_damage gives
execute_combat_turn_without_lookup(p, m, selected_action, flee_roll, damage_variance) ==
    IF selected_action = "USE_POTION" THEN potion_turn(p, m)
    ELSE IF selected_action = "FLEE" THEN flee_turn(p, m, flee_roll)
    ELSE damage_turn(p, m, selected_action, damage_variance)

\* CombatEngine.execute_combat_turn(player, monster, selected_action) with the
\* float of the flee roll and the variance of the monster's attack
execute_combat_turn(p, m, selected_action, flee_roll, damage_variance) ==
    IF selected_action = "USE_POTION" THEN potion_turn(p, m)
    ELSE IF selected_action = "FLEE" THEN flee_turn(p, m, flee_roll)
    ELSE IF ~InList(selected_action, abilities(p))
    THEN [NoTurn(p, m) EXCEPT !.raised = TRUE]
    ELSE damage_turn(p, m, selected_action, damage_variance)

\* the draws of one turn: the float the generator handed to attempt_flee
\* returns if called, and the attack variance when a damage action leaves the
\* monster alive (0: not drawn)
TurnDraws(p, m, selected_action) ==
    IF selected_action = "USE_POTION" THEN {<<Rat(0, 1), 0>>}
    ELSE IF selected_action = "FLEE" THEN {<<r, 0>> : r \in RandomOutputs}
    ELSE IF damage_turn(p, m, selected_action, 0).monster_died THEN {<<Rat(0, 1), 0>>}
    ELSE {<<Rat(0, 1), v>> : v \in AttackVariance}

-----------------------------------------------------------------------------
(* SpecCE: MonsterGenerator.generate_monster and CombatEngine.run_combat_phase *)
(* on any player and any number of defeats                                    *)

\* the health of the player handed to run_combat_phase
SampledHealth == {1, PLAYER_MAX_HEALTH \div 2, PLAYER_MAX_HEALTH}

SampledPlayers ==
    {[NewPlayer(PLAYER_MAX_HEALTH, PLAYER_BASE_STRENGTH, PLAYER_BASE_DEFENSE)
        EXCEPT !.health = h, !.num_potions = np, !.num_escape_scrolls = ns,
               !.has_shield = hs, !.has_sword = hw] :
        h \in SampledHealth, np \in 0..MaxPotions, ns \in 0..MaxScrolls,
        hs \in BOOLEAN, hw \in BOOLEAN}

InitCE ==
    /\ player \in SampledPlayers
    /\ current_monster = NoMonster
    /\ remaining_gear = unique_gear
    /\ monsters_defeated \in 0..MaxDefeated
    /\ game_won = FALSE
    /\ emitted = [k \in UniqueGearKinds |-> 0]
    /\ last = NoLast

\* generate_monster(monsters_defeated): the monster of the combat phase
GenerateMonster ==
    /\ last.event = "init"
    /\ current_monster' \in GenerateOutcomes(monsters_defeated)
    /\ last' = [NoLast EXCEPT !.event = "generate_monster"]
    /\ UNCHANGED <<player, remaining_gear, monsters_defeated, game_won, emitted>>

\* the loop test of run_combat_phase
CombatContinues ==
    /\ is_alive(player)
    /\ current_monster # NoMonster
    /\ is_alive(current_monster)

\* one iteration of the loop of run_combat_phase: after a successful flee the
\* phase returns None (NoMonster), after a kill it returns the monster
CombatTurn ==
    /\ CombatContinues
    /\ \E selected_action \in ChoiceOutputs(get_available_actions(player)) :
       \E d \in TurnDraws(player, current_monster, selected_action) :
        LET turn_result == execute_combat_turn(player, current_monster,
                                               selected_action, d[1], d[2])
        IN  /\ player' = turn_result.player
            /\ current_monster' =
                   IF turn_result.non_damage_action /\ turn_result.flee_succeeded
                   THEN NoMonster
                   ELSE turn_result.monster
            /\ last' = [NoLast EXCEPT !.event = "turn", !.action = selected_action,
                            !.final_damage = turn_result.final_damage,
                            !.is_weakness_hit = turn_result.is_weakness_hit,
                            !.monster_died = turn_result.monster_died,
                            !.flee_succeeded = turn_result.flee_succeeded,
                            !.scroll_used = turn_result.player.num_escape_scrolls
                                                < player.num_escape_scrolls]
    /\ UNCHANGED <<remaining_gear, monsters_defeated, game_won, emitted>>

NextCE == GenerateMonster \/ CombatTurn

SpecCE == InitCE /\ [][NextCE]_vars

-----------------------------------------------------------------------------
(* SpecArmored: the combat phase of SpecCE for players who own armor *)

SampledArmor == {{}, {"HELM"}, {"HELM", "BOOTS"}, ArmorKinds}

ArmoredPlayers ==
    {[NewPlayer(PLAYER_MAX_HEALTH, PLAYER_BASE_STRENGTH, PLAYER_BASE_DEFENSE)
        EXCEPT !.health = h, !.owned_armor = armor, !.has_shield = hs,
               !.has_sword = hw] :
        h \in SampledHealth, armor \in SampledArmor, hs \in BOOLEAN, hw \in BOOLEAN}

InitArmored ==
    /\ player \in ArmoredPlayers
    /\ current_monster = NoMonster
    /\ remaining_gear = unique_gear
    /\ monsters_defeated \in 0..MaxDefeated
    /\ game_won = FALSE
    /\ emitted = [k \in UniqueGearKinds |-> 0]
    /\ last = NoLast

SpecArmored == InitArmored /\ [][NextCE]_vars

-----------------------------------------------------------------------------
(* SpecDispatch: CombatEngine.execute_combat_turn called with any Action,   *)
(* offered by get_available_actions or not                                  *)

\* execute_combat_turn(player, monster, selected_action) for any member of
\* Action; a KeyError raised by the ability lookup leaves the caller with the
\* state as it was (event "rejected"); last.draw is the float attempt_flee drew
\* (it draws none when a scroll is consumed)
DispatchTurn ==
    /\ CombatContinues
    /\ \E selected_action \in Action :
       \E d \in TurnDraws(player, current_monster, selected_action) :
        LET turn_result == execute_combat_turn(player, current_monster,
                                               selected_action, d[1], d[2])
        IN  /\ player' = turn_result.player
            /\ current_monster' =
                   IF turn_result.non_damage_action /\ turn_result.flee_succeeded
                   THEN NoMonster
                   ELSE turn_result.monster
            /\ last' = [NoLast EXCEPT
                            !.event = IF turn_result.raised THEN "rejected" ELSE "turn",
                            !.action = selected_action,
                            !.draw = IF selected_action = "FLEE"
                                        /\ player.num_escape_scrolls = 0
                                     THEN d[1] ELSE Rat(0, 1),
                            !.final_damage = turn_result.final_damage,
                            !.is_weakness_hit = turn_result.is_weakness_hit,
                            !.monster_died = turn_result.monster_died,
                            !.flee_succeeded = turn_result.flee_succeeded,
                            !.scroll_used = turn_result.player.num_escape_scrolls
                                                < player.num_escape_scrolls]
    /\ UNCHANGED <<remaining_gear, monsters_defeated, game_won, emitted>>

NextDispatch == GenerateMonster \/ DispatchTurn

SpecDispatch == InitCE /\ [][NextDispatch]_vars

-----------------------------------------------------------------------------
(* The two monster generators called with every value randint can return *)

\* randint(a, b): any integer of the range, both ends included
RandintRange(a, b) == a..b

\* a new run at any number of defeats
InitGen ==
    /\ player = NewPlayer(PLAYER_MAX_HEALTH, PLAYER_BASE_STRENGTH, PLAYER_BASE_DEFENSE)
    /\ current_monster = NoMonster
    /\ remaining_gear = unique_gear
    /\ monsters_defeated \in 0..MaxDefeated
    /\ game_won = FALSE
    /\ emitted = [k \in UniqueGearKinds |-> 0]
    /\ last = NoLast

\* monster_generator.py: generate_monster(monsters_defeated)
CallGenerateMonster ==
    /\ \E r \in RandomOutputs, t \in ChoiceOutputs(templates),
          h \in RandintRange(MONSTER_HEALTH_MIN, MONSTER_HEALTH_MAX),
          s \in RandintRange(MONSTER_STRENGTH_MIN, MONSTER_STRENGTH_MAX) :
        current_monster' = generate_monster(monsters_defeated, r, t, h, s)
    /\ last' = [NoLast EXCEPT !.event = "generate_monster"]
    /\ UNCHANGED <<player, remaining_gear, monsters_defeated, game_won, emitted>>

\* systems.py: the monster branch of _explore_room, generate_boss() or
\* generate_monster()
CallSystemsGenerate ==
    /\ \E r \in RandomOutputs, t \in ChoiceOutputs(systems_templates),
          h \in RandintRange(MONSTER_HEALTH_MIN, MONSTER_HEALTH_MAX),
          s \in RandintRange(MONSTER_STRENGTH_MIN, MONSTER_STRENGTH_MAX) :
        current_monster' = IF systems_boss_spawns(monsters_defeated, r)
                           THEN systems_generate_boss
                           ELSE systems_generate_monster(t, h, s)
    /\ last' = [NoLast EXCEPT !.event = "systems_generate"]
    /\ UNCHANGED <<player, remaining_gear, monsters_defeated, game_won, emitted>>

NextGen == CallGenerateMonster \/ CallSystemsGenerate

SpecGen == InitGen /\ [][NextGen]_vars

-----------------------------------------------------------------------------
(* The constructors of the data classes called with any configuration value *)

MaxHealthArg == 3

\* WeightedOption.__post_init__ (models.py): ValueError on a negative weight
WeightedOption_raises(weight) == RatLess(weight, Rat(0, 1))

\* LootBucket.__post_init__ (drop_calculator.py): ValueError on a negative weight
LootBucket_raises(weight) == RatLess(weight, Rat(0, 1))

\* RoomTypeOption.__post_init__ (models.py): ValueError on a negative weight
RoomTypeOption_raises(spawn_weight) == RatLess(spawn_weight, Rat(0, 1))

\* Actor.__post_init__ (models.py): sets health = max_health and tests nothing
Actor_raises(max_health) == FALSE

SampledConfigWeights == {Rat(-1, 2), Rat(-1, 20), Rat(0, 1), Rat(1, 5), Rat(1, 1)}

SampledMaxHealth == (-MaxHealthArg..MaxHealthArg) \cup {PLAYER_MAX_HEALTH}

\* WeightedOption(label, weight)
ConstructWeightedOption ==
    /\ \E i \in 1..Len(OptionLabels), weight \in SampledConfigWeights :
        last' = [NoLast EXCEPT !.event = "WeightedOption", !.label = OptionLabels[i],
                               !.weight = weight,
                               !.raised = WeightedOption_raises(weight)]
    /\ UNCHANGED <<player, current_monster, remaining_gear, monsters_defeated,
                   game_won, emitted>>

\* LootBucket(category, weight)
ConstructLootBucket ==
    /\ \E category \in {"NO_ITEM", "HEALTH_POTION", "ESCAPE_SCROLL", "ARMOR"},
          weight \in SampledConfigWeights :
        last' = [NoLast EXCEPT !.event = "LootBucket", !.label = category,
                               !.weight = weight,
                               !.raised = LootBucket_raises(weight)]
    /\ UNCHANGED <<player, current_monster, remaining_gear, monsters_defeated,
                   game_won, emitted>>

\* RoomTypeOption(room_type, spawn_weight)
ConstructRoomTypeOption ==
    /\ \E room_type \in {"empty", "loot", "monster"},
          spawn_weight \in SampledConfigWeights :
        last' = [NoLast EXCEPT !.event = "RoomTypeOption", !.label = room_type,
                               !.weight = spawn_weight,
                               !.raised = RoomTypeOption_raises(spawn_weight)]
    /\ UNCHANGED <<player, current_monster, remaining_gear, monsters_defeated,
                   game_won, emitted>>

\* Player(max_health, strength, base_defense): the object exists unless the
\* construction raised
ConstructPlayer ==
    /\ \E max_health \in SampledMaxHealth :
        /\ player' = IF Actor_raises(max_health) THEN player
                     ELSE NewPlayer(max_health, PLAYER_BASE_STRENGTH,
                                    PLAYER_BASE_DEFENSE)
        /\ last' = [NoLast EXCEPT !.event = "Player", !.max_health = max_health,
                                  !.raised = Actor_raises(max_health)]
    /\ UNCHANGED <<current_monster, remaining_gear, monsters_defeated, game_won,
                   emitted>>

\* Monster(max_health, strength, name, weaknesses, is_boss)
ConstructMonster ==
    /\ \E max_health \in SampledMaxHealth, t \in ChoiceOutputs(templates),
          strength \in RandintOutputs(MONSTER_STRENGTH_MIN, MONSTER_STRENGTH_MAX) :
        /\ current_monster' =
               IF Actor_raises(max_health) THEN current_monster
               ELSE NewMonster(max_health, strength, t.name, t.weaknesses, t.is_boss)
        /\ last' = [NoLast EXCEPT !.event = "Monster", !.max_health = max_health,
                                  !.raised = Actor_raises(max_health)]
    /\ UNCHANGED <<player, remaining_gear, monsters_defeated, game_won, emitted>>

NextConstruct ==
    \/ ConstructWeightedOption
    \/ ConstructLootBucket
    \/ ConstructRoomTypeOption
    \/ ConstructPlayer
    \/ ConstructMonster

SpecConstruct == Init /\ [][NextConstruct]_vars

-----------------------------------------------------------------------------
(* Player.use_potion and Inventory.add_potion called on sampled players *)

\* player.use_potion(), its return value recorded
CallUsePotion ==
    /\ LET used == use_potion(player)
       IN  /\ player' = used.player
           /\ last' = [NoLast EXCEPT !.event = "use_potion", !.returned = used.ok]
    /\ UNCHANGED <<current_monster, remaining_gear, monsters_defeated, game_won,
                   emitted>>

\* player.inventory.add_potion()
CallAddPotion ==
    /\ player.num_potions <= MaxPotions
    /\ player' = add_potion(player)
    /\ last' = [NoLast EXCEPT !.event = "add_potion"]
    /\ UNCHANGED <<current_monster, remaining_gear, monsters_defeated, game_won,
                   emitted>>

NextPotion == CallUsePotion \/ CallAddPotion

SpecPotion == InitCE /\ [][NextPotion]_vars

-----------------------------------------------------------------------------
(* Properties *)

\* C1: in every reachable state of a run the health of the player and of the
\* current monster lies between 0 and the actor's max_health.
C1_HealthWithinBounds ==
    /\ 0 <= player.health /\ player.health <= player.max_health
    /\ current_monster # NoMonster =>
           /\ 0 <= current_monster.health
           /\ current_monster.health <= current_monster.max_health

\* C1, reached: a wounded monster's retaliation has brought the player to 0
C1_Witness ==
    /\ last.event = "turn"
    /\ player.health = 0
    /\ current_monster # NoMonster
    /\ current_monster.health < current_monster.max_health

\* C2: on one DropCalculator, over any sequence of roll_item_drop and
\* get_drop_for_monster calls, each of the 8 unique-gear kinds is returned at
\* most once.
C2_UniqueGearAtMostOnce == \A k \in UniqueGearKinds : emitted[k] <= 1

\* C2, reached: all eight kinds were returned once and a later call gave nothing
C2_Witness ==
    /\ \A k \in UniqueGearKinds : emitted[k] = 1
    /\ last.drop = "NO_ITEM"

\* C3 as stated: get_drop_for_monster(0, player without shield) returns Shield
\* and get_drop_for_monster(2, player without sword) returns Sword, whatever
\* calls were made on the drop engine before.
C3_ScriptedUnlockAfterAnyCalls ==
    last.event = "get_drop_for_monster" =>
        /\ last.shield_due => last.drop = "SHIELD"
        /\ last.sword_due => last.drop = "SWORD"

\* C3 amended: get_drop_for_monster(0, player without shield) returns Shield
\* provided Shield is still in the engine's remaining gear, and
\* get_drop_for_monster(2, player without sword) returns Sword provided Sword
\* is still in the remaining gear, whatever the random source returns.
C3_ScriptedUnlockWhileRemaining ==
    [][last'.event = "get_drop_for_monster" =>
          /\ (last'.shield_due /\ InList("SHIELD", remaining_gear))
                 => (last'.drop = "SHIELD" /\ ~InList("SHIELD", remaining_gear'))
          /\ (last'.sword_due /\ InList("SWORD", remaining_gear))
                 => (last'.drop = "SWORD" /\ ~InList("SWORD", remaining_gear'))]_vars

\* C3, reached: the Sword was returned by a scripted call made after the
\* Shield and an armor piece had been returned
C3_Witness ==
    /\ last.event = "get_drop_for_monster"
    /\ last.sword_due
    /\ last.drop = "SWORD"
    /\ emitted["SHIELD"] = 1
    /\ \E k \in ArmorKinds : emitted[k] = 1

\* C4 as stated: in every run the player has the shield once
\* monsters_defeated >= 1 and the sword once monsters_defeated >= 3.
C4_GearOnSchedule ==
    /\ monsters_defeated >= 1 => player.has_shield
    /\ monsters_defeated >= 3 => player.has_sword

\* C5: a damage action that brings the monster's health to 0 is not answered:
\* the player's health after the turn is the health before it.
C5_NoRetaliationOnLethalTurn ==
    [][(last'.event = "turn" /\ last'.monster_died)
          => player'.health = player.health]_vars

\* C5, reached: a wounded player has killed a monster
C5_Witness ==
    /\ last.event = "turn"
    /\ last.monster_died
    /\ 0 < player.health
    /\ player.health < player.max_health

\* C6 as stated: a combat turn with action UsePotion, taken with at least one
\* potion, decrements num_potions by 1 and sets the player's health to
\* max_health.
C6_PotionTurnHeals ==
    [][(last'.event = "turn" /\ last'.action = "USE_POTION" /\ player.num_potions >= 1)
          => /\ player'.num_potions = player.num_potions - 1
             /\ player'.health = player'.max_health]_vars

\* C7: on a UsePotion turn the monster does not attack: the player's health
\* is not reduced, the monster's health is unchanged and combat continues with
\* the same monster.
C7_NoRetaliationOnPotionTurn ==
    [][(last'.event = "turn" /\ last'.action = "USE_POTION")
          => /\ player'.health >= player.health
             /\ current_monster'.health = current_monster.health
             /\ current_monster' = current_monster
             /\ CombatContinues']_vars

\* C7, reached: a potion turn was taken against a living monster
C7_Witness ==
    /\ last.event = "turn"
    /\ last.action = "USE_POTION"
    /\ player.num_potions >= 1
    /\ CombatContinues

\* C8: Flee chosen with at least one escape scroll succeeds for every random
\* output, takes exactly one scroll and ends the combat as fled.
C8_FleeWithScroll ==
    [][(last'.event = "turn" /\ last'.action = "FLEE" /\ player.num_escape_scrolls >= 1)
          => /\ last'.flee_succeeded
             /\ player'.num_escape_scrolls = player.num_escape_scrolls - 1
             /\ current_monster' = NoMonster]_vars

\* C8, reached: a flee that used a scroll has ended the combat
C8_Witness ==
    /\ last.event = "turn"
    /\ last.action = "FLEE"
    /\ last.scroll_used
    /\ last.flee_succeeded
    /\ current_monster = NoMonster

\* generate_monster returns no boss below the threshold, over the random outputs
GenerateMonsterGated ==
    \A defeated \in 0..(BOSS_SPAWN_THRESHOLD - 1) :
        \A m \in GenerateOutcomes(defeated) : ~m.is_boss

\* C9: generate_monster(monsters_defeated) never returns a boss when
\* monsters_defeated < BOSS_SPAWN_THRESHOLD, and in a run no boss is the
\* current monster before the threshold number of defeats.
C9_BossGated ==
    /\ GenerateMonsterGated
    /\ current_monster.is_boss => monsters_defeated >= BOSS_SPAWN_THRESHOLD

\* C9, reached: the boss is the current monster right at the threshold
C9_Witness ==
    /\ current_monster.is_boss
    /\ monsters_defeated = BOSS_SPAWN_THRESHOLD
    /\ \E m \in GenerateOutcomes(BOSS_SPAWN_THRESHOLD) : m.is_boss

\* the configured base damage of a damage action
ConfiguredBaseDamage(action) ==
    CASE action = "HOLY_SMITE" -> HOLY_SMITE_BASE_DAMAGE
      [] action = "SWORD_SLASH" -> SWORD_SLASH_BASE_DAMAGE
      [] action = "SHIELD_BASH" -> SHIELD_BASH_BASE_DAMAGE

\* C10: the damage a damage action applies is its configured base damage plus
\* the player's strength, plus WEAKNESS_BONUS_DAMAGE exactly when the action's
\* same-named weakness is among the monster's weaknesses, and is_weakness_hit
\* is reported exactly in that case.
C10_DamageFormula ==
    [][(last'.event = "turn" /\ last'.action \in Weakness)
          => LET matched == last'.action \in current_monster.weaknesses
                 expected == ConfiguredBaseDamage(last'.action) + player.strength
                                 + (IF matched THEN WEAKNESS_BONUS_DAMAGE ELSE 0)
             IN  /\ last'.final_damage = expected
                 /\ last'.is_weakness_hit = matched
                 /\ current_monster'.health = Max(0, current_monster.health - expected)]_vars

\* C10, reached: a Shield Bash on a monster weak to it has dealt 6 + 5 + 5 = 16
C10_Witness ==
    /\ last.event = "turn"
    /\ last.action = "SHIELD_BASH"
    /\ last.is_weakness_hit
    /\ last.final_damage = 16
    /\ current_monster.health = current_monster.max_health - 16

\* C11: in every combat state the available actions contain UsePotion exactly
\* when player.health < player.max_health and num_potions > 0, and always
\* contain Flee (CombatEngine.get_available_actions and
\* GameSystem._get_available_combat_actions alike).
C11_PotionAndFleeOffered ==
    CombatContinues =>
        LET potion_due == player.health < player.max_health /\ player.num_potions > 0
        IN  /\ InList("USE_POTION", get_available_actions(player)) <=> potion_due
            /\ InList("FLEE", get_available_actions(player))
            /\ InList("USE_POTION", get_available_combat_actions(player)) <=> potion_due
            /\ InList("FLEE", get_available_combat_actions(player))

\* C11, reached: in combat at full health a held potion is not offered
C11_Witness ==
    /\ CombatContinues
    /\ player.num_potions > 0
    /\ player.health = player.max_health
    /\ ~InList("USE_POTION", get_available_actions(player))
    /\ InList("FLEE", get_available_actions(player))

\* C12: in every reachable state Holy Smite is available, Sword Slash exactly
\* with has_sword and Shield Bash exactly with has_shield; and no step of a run
\* deals Sword Slash or Shield Bash damage unless the item had been applied to
\* the player before the step.
C12_AbilitiesGatedByGear ==
    /\ [](/\ InList("HOLY_SMITE", abilities(player))
          /\ InList("SWORD_SLASH", abilities(player)) <=> player.has_sword
          /\ InList("SHIELD_BASH", abilities(player)) <=> player.has_shield
          /\ InList("SWORD_SLASH", get_available_combat_actions(player)) <=> player.has_sword
          /\ InList("SHIELD_BASH", get_available_combat_actions(player)) <=> player.has_shield)
    /\ [][last'.event = "turn" =>
              /\ last'.action = "SWORD_SLASH" => player.has_sword
              /\ last'.action = "SHIELD_BASH" => player.has_shield]_vars

\* C12, reached: a Sword Slash was dealt by a player holding sword and shield
C12_Witness ==
    /\ last.event = "turn"
    /\ last.action = "SWORD_SLASH"
    /\ last.final_damage > 0
    /\ player.has_sword
    /\ player.has_shield

\* C13: in a run started with monsters_defeated = 0 whose room draws always
\* select a monster room, the first monster encountered has item_drop = Shield,
\* and when that monster is defeated and its loot applied the player has the
\* shield and the remaining unique gear has exactly 7 entries.
C13_FirstMonsterGivesShield ==
    [][/\ (/\ monsters_defeated = 0
           /\ remaining_gear = unique_gear
           /\ current_monster = NoMonster
           /\ current_monster' # NoMonster)
              => current_monster'.item_drop = "SHIELD"
       /\ (/\ monsters_defeated' = monsters_defeated + 1
           /\ current_monster.item_drop = "SHIELD")
              => /\ player'.has_shield
                 /\ Len(remaining_gear') = 7]_vars

\* C13, reached: the first monster was defeated and gave the shield
C13_Witness ==
    /\ last.event = "turn"
    /\ last.monster_died
    /\ monsters_defeated = 1
    /\ player.has_shield
    /\ Len(remaining_gear) = 7
    /\ ~InList("SHIELD", remaining_gear)

\* equality of two rationals
RatEq(a, b) == a.num * b.den = b.num * a.den

\* the bucket of a category in a list of buckets
BucketOf(buckets, category) ==
    buckets[CHOOSE i \in 1..Len(buckets) : buckets[i].category = category]

\* C14: when no armor piece remains in the remaining gear, the Armor bucket has
\* weight 0, the NoItem bucket has weight NO_ITEM + ARMOR, the total bucket
\* weight equals the total with armor remaining, and roll_item_drop returns no
\* armor kind and leaves the remaining gear unchanged.
C14_ArmorExhausted ==
    /\ [](RemainingArmor(remaining_gear) = <<>> =>
            LET exhausted == create_buckets(player, RemainingArmor(remaining_gear))
                stocked == create_buckets(player, RemainingArmor(unique_gear))
            IN  /\ RatEq(BucketOf(exhausted, "ARMOR").weight, Rat(0, 1))
                /\ RatEq(BucketOf(exhausted, "NO_ITEM").weight,
                         RatAdd(DROP_WEIGHTS.NO_ITEM, DROP_WEIGHTS.ARMOR))
                /\ RatEq(CumulativeWeight(exhausted, Len(exhausted)),
                         CumulativeWeight(stocked, Len(stocked))))
    /\ [][(RemainingArmor(remaining_gear) = <<>> /\ last'.event = "roll_item_drop")
             => /\ last'.drop \notin ArmorKinds
                /\ remaining_gear' = remaining_gear]_vars

\* C14, reached: a roll made with all six armor pieces gone returned a scroll
\* (the draw that selects Armor while armor remains)
C14_Witness ==
    /\ RemainingArmor(remaining_gear) = <<>>
    /\ \A k \in ArmorKinds : emitted[k] = 1
    /\ last.event = "roll_item_drop"
    /\ last.drop = "ESCAPE_SCROLL"


\* C15: every step that defeats a monster, regular or boss, raises
\* monsters_defeated by exactly 1 and applies that monster's pre-assigned
\* item_drop to the player; no other step changes monsters_defeated.
C15_DefeatCountsAndAppliesDrop ==
    [][ /\ (InCombat /\ current_monster' = NoMonster /\ last'.monster_died)
            => /\ monsters_defeated' = monsters_defeated + 1
               /\ current_monster.item_drop # "None"
                    => player' = apply_loot(player, current_monster.item_drop)
        /\ monsters_defeated' # monsters_defeated
            => /\ InCombat
               /\ last'.monster_died
               /\ monsters_defeated' = monsters_defeated + 1 ]_vars

\* C16: game_won becomes true on the step that defeats a boss and on no other
\* step; the player is alive at that moment and the run takes no step from a
\* won state; the step that defeats a regular monster leaves no current
\* monster, game_won false and the run in exploration.
C16_WonExactlyOnBossDefeat ==
    [][ /\ ~game_won
        /\ game_won' <=> (InCombat /\ current_monster.is_boss /\ last'.monster_died)
        /\ game_won' => is_alive(player')
        /\ (InCombat /\ ~current_monster.is_boss /\ last'.monster_died)
            => /\ current_monster' = NoMonster
               /\ ~game_won'
               /\ Running' ]_vars

C16_Witness ==
    /\ game_won
    /\ last.monster_died
    /\ current_monster = NoMonster
    /\ is_alive(player)
    /\ monsters_defeated > BOSS_SPAWN_THRESHOLD

\* C17: the run takes a step exactly while the player is alive and game_won
\* is false: a step is possible in every such state and none is taken from
\* any other; a player at health 0 (also in the middle of a combat, with the
\* monster still standing) means game_won is false, and from then on nothing
\* changes: no damage, no loot, no defeat count, no room entry.
C17_RunsExactlyWhileAliveAndNotWon ==
    /\ [](Running => ENABLED Next)
    /\ [](~is_alive(player) => (player.health = 0 /\ ~game_won /\ ~ENABLED <<Next>>_vars))
    /\ [][Running]_vars

C17_Witness ==
    /\ player.health = 0
    /\ current_monster # NoMonster
    /\ is_alive(current_monster)
    /\ last.event = "turn"
    /\ ~last.monster_died
    /\ ~game_won

\* C18: two runs in the same state, given the same player choice and the same
\* outputs of the injected random source, are in the same state after the
\* turn. Of the two draws of a combat turn only flee_roll comes from the
\* injected source (random_provider.random); damage_variance is drawn by
\* Monster.attack from the global random module, so the two runs may differ
\* in it.
C18_SameSourceOutputsSameState ==
    CombatContinues =>
        \A selected_action \in ChoiceOutputs(get_available_actions(player)) :
        \A flee_roll \in RandomOutputs :
        \A variance_a, variance_b \in AttackVariance :
            execute_combat_turn(player, current_monster, selected_action,
                                flee_roll, variance_a)
          = execute_combat_turn(player, current_monster, selected_action,
                                flee_roll, variance_b)

\* C19: the drop engine's remaining gear starts as the list of all 8 unique
\* gear kinds, and every step leaves in it only kinds that were in it before:
\* nothing is added back and its length never increases.
C19_RemainingGearOnlyShrinks ==
    /\ remaining_gear = unique_gear
    /\ Len(unique_gear) = 8
    /\ Cardinality(UniqueGearKinds) = 8
    /\ [][ /\ \A i \in 1..Len(remaining_gear') :
                InList(remaining_gear'[i], remaining_gear)
           /\ Len(remaining_gear') <= Len(remaining_gear) ]_vars

C19_Witness ==
    /\ remaining_gear = <<>>
    /\ last.drop \in UniqueGearKinds
    /\ \A k \in UniqueGearKinds : emitted[k] = 1

\* C20: after any sequence of loot applications the player's owned_armor has
\* at most 6 entries and all of them are armor-piece kinds: never the Shield,
\* the Sword, NO_ITEM or a consumable.
C20_OwnedArmorIsArmor ==
    /\ Cardinality(player.owned_armor) <= 6
    /\ player.owned_armor \subseteq ArmorKinds
    /\ player.owned_armor \cap
           {"SHIELD", "SWORD", "NO_ITEM", "HEALTH_POTION", "ESCAPE_SCROLL"} = {}

C20_Witness ==
    /\ Cardinality(player.owned_armor) = 6
    /\ player.has_shield
    /\ player.has_sword
    /\ player.num_potions > 0
    /\ player.num_escape_scrolls > 0
    /\ last.event = "apply_loot"

\* C21: when the narrator is invoked for an event, the mutations of that event
\* are complete, so that a narrator failure leaves nothing half applied: at a
\* failure while narrating found loot or a victory the drop has been applied
\* to the player (consumable added, Shield or Sword unlocked), and at a
\* victory the defeat has been counted.
C21_MutationsBeforeNarration ==
    [][ last'.event = "narrator_failure" =>
          /\ (last'.narrating \in {"loot", "victory"} /\ last'.drop # "None")
                => player' = apply_loot(player, last'.drop)
          /\ last'.narrating = "victory"
                => monsters_defeated' = monsters_defeated + 1 ]_vars

\* C22: a turn dispatched with an action that get_available_actions does not
\* offer in the current state (Sword Slash without the sword, Shield Bash
\* without the shield, USE_POTION without a potion or at full health) changes
\* nothing: the player (health, inventory, equipment) and the monster are as
\* before.
C22_InvalidDispatchChangesNothing ==
    [][ (/\ CombatContinues
         /\ last'.event \in {"turn", "rejected"}
         /\ ~InList(last'.action, get_available_actions(player)))
        => /\ player' = player
           /\ current_monster' = current_monster ]_vars

C22_Witness ==
    /\ last.event = "rejected"
    /\ last.action = "SWORD_SLASH"
    /\ ~player.has_sword
    /\ player.has_shield
    /\ is_alive(current_monster)

\* C23: a Flee turn of a player without escape scroll whose roll fails deals
\* no damage to the monster and none to the player, changes no inventory
\* count, and the combat continues against the same monster.
C23_FailedFleeChangesNothing ==
    [][ (/\ CombatContinues
         /\ last'.event = "turn"
         /\ last'.action = "FLEE"
         /\ player.num_escape_scrolls = 0
         /\ ~last'.flee_succeeded)
        => /\ player' = player
           /\ current_monster' = current_monster
           /\ CombatContinues' ]_vars

C23_Witness ==
    /\ last.event = "turn"
    /\ last.action = "FLEE"
    /\ ~last.flee_succeeded
    /\ ~last.scroll_used
    /\ player.num_escape_scrolls = 0
    /\ player.num_potions > 0
    /\ CombatContinues

\* C24: a successful flee returns the run to exploration with no current
\* monster and no reward: monsters_defeated, game_won, has_shield, has_sword,
\* owned_armor and num_potions are unchanged, the scroll count does not grow,
\* the drop engine's gear is untouched: the fled monster's pre-assigned drop
\* is not applied.
C24_FleeGivesNoReward ==
    [][ (/\ InCombat
         /\ last'.event = "turn"
         /\ last'.action = "FLEE"
         /\ last'.flee_succeeded)
        => /\ current_monster' = NoMonster
           /\ Running'
           /\ monsters_defeated' = monsters_defeated
           /\ game_won' = game_won
           /\ player'.has_shield = player.has_shield
           /\ player'.has_sword = player.has_sword
           /\ player'.owned_armor = player.owned_armor
           /\ player'.num_potions = player.num_potions
           /\ player'.num_escape_scrolls <= player.num_escape_scrolls
           /\ player'.health = player.health
           /\ remaining_gear' = remaining_gear ]_vars

C24_Witness ==
    /\ last.event = "turn"
    /\ last.action = "FLEE"
    /\ last.flee_succeeded
    /\ current_monster = NoMonster
    /\ emitted["SHIELD"] = 1
    /\ ~player.has_shield
    /\ monsters_defeated = 0

\* C25: take_damage(raw, defense) on an actor, for all integers raw and
\* defense, negative ones included, returns reduced = max(0, raw - max(0,
\* defense)) and sets health to max(0, old health - reduced); it never
\* increases the health, and a negative defense adds no damage.
C25_TakeDamageFormula ==
    [][ last'.event \in {"take_damage_player", "take_damage_monster"} =>
          LET raw == last'.incoming_damage
              defense == last'.defense
              clamped == IF defense > 0 THEN defense ELSE 0
              reduced == IF raw - clamped > 0 THEN raw - clamped ELSE 0
              old == IF last'.event = "take_damage_player" THEN player.health
                     ELSE IF current_monster = NoMonster
                     THEN current_monster'.max_health
                     ELSE current_monster.health
              new == IF last'.event = "take_damage_player" THEN player'.health
                     ELSE current_monster'.health
          IN  /\ last'.final_damage = reduced
              /\ new = (IF old - reduced > 0 THEN old - reduced ELSE 0)
              /\ new <= old
              /\ new >= 0
              /\ defense < 0 => reduced = (IF raw > 0 THEN raw ELSE 0) ]_vars

C25_Witness ==
    /\ last.event = "take_damage_player"
    /\ last.incoming_damage > 0
    /\ last.defense < 0
    /\ last.final_damage = last.incoming_damage
    /\ player.health = 0
    /\ current_monster # NoMonster
    /\ current_monster.health < current_monster.max_health

\* C26: a damage action that leaves the monster alive is followed by one
\* retaliation in the same turn: the player's health drops by
\* max(0, monster.strength + v - defense), clamped at 0, for some v in 0..2,
\* with defense = base_defense + ARMOR_DEFENSE_BONUS_PER_PIECE * (owned armor
\* pieces) + 3 when has_shield; nothing else of the player changes.
C26_OneRetaliation ==
    [][ (/\ CombatContinues
         /\ last'.event = "turn"
         /\ last'.action \in {"HOLY_SMITE", "SWORD_SLASH", "SHIELD_BASH"}
         /\ ~last'.monster_died)
        => \E v \in 0..2 :
            LET defense == player.base_defense
                           + ARMOR_DEFENSE_BONUS_PER_PIECE * Cardinality(player.owned_armor)
                           + (IF player.has_shield THEN 3 ELSE 0)
                raw == current_monster'.strength + v - defense
                monster_damage == IF raw > 0 THEN raw ELSE 0
                health_after == IF player.health - monster_damage > 0
                                THEN player.health - monster_damage ELSE 0
            IN  player' = [player EXCEPT !.health = health_after] ]_vars

C26_Witness ==
    /\ last.event = "turn"
    /\ last.action = "HOLY_SMITE"
    /\ ~last.monster_died
    /\ Cardinality(player.owned_armor) = 1
    /\ player.has_shield
    /\ player.health \notin SampledHealth
    /\ player.health > 0
    /\ is_alive(current_monster)

\* C27: select_weighted_random on a non-empty list returns the last label
\* when the total weight is <= 0; otherwise, with r = draw * total, the first
\* label in list order whose cumulative weight is >= r. The drop list is in
\* the order NO_ITEM, HEALTH_POTION, ESCAPE_SCROLL, ARMOR and the room list in
\* the order empty, loot, monster.
C27_WeightedSelection ==
    /\ last.event = "select_weighted_random" =>
        LET options == last.options
            n == Len(options)
            total == CumulativeWeight(options, n)
            r == RatMul(last.draw, total)
        IN  IF total.num * total.den <= 0
            THEN last.label = options[n].label
            ELSE \E i \in 1..n :
                    /\ last.label = options[i].label
                    /\ RatLeq(r, CumulativeWeight(options, i))
                    /\ \A j \in 1..(i - 1) : RatLess(CumulativeWeight(options, j), r)
    /\ [i \in 1..4 |-> drop_weighted_options(player, RemainingArmor(remaining_gear))[i].label]
            = <<"NO_ITEM", "HEALTH_POTION", "ESCAPE_SCROLL", "ARMOR">>
    /\ [i \in 1..4 |-> drop_weighted_options(player, <<>>)[i].label]
            = <<"NO_ITEM", "HEALTH_POTION", "ESCAPE_SCROLL", "ARMOR">>
    /\ [i \in 1..3 |-> room_weighted_options[i].label] = <<"empty", "loot", "monster">>
    /\ \A draw \in RandomOutputs :
        /\ select_random_room_type(draw) = select_weighted_random(room_weighted_options, draw)
        /\ chosen_bucket(player, remaining_gear, draw)
            = select_weighted_random(
                  drop_weighted_options(player, RemainingArmor(remaining_gear)), draw)

C27_Witness ==
    /\ last.event = "select_weighted_random"
    /\ Len(last.options) = 3
    /\ last.options[1].weight = Rat(0, 1)
    /\ last.options[2].weight = Rat(1, 2)
    /\ last.options[3].weight = Rat(1, 2)
    /\ last.draw = Rat(1, 2)
    /\ last.label = "second"

\* C28: when a player without escape scroll chooses Flee, the flee succeeds
\* if and only if the float drawn is strictly less than FLEE_SUCCESS_CHANCE,
\* and num_escape_scrolls stays 0.
C28_FleeRoll ==
    [][ (/\ CombatContinues
         /\ last'.event = "turn"
         /\ last'.action = "FLEE"
         /\ player.num_escape_scrolls = 0)
        => /\ last'.flee_succeeded
                <=> last'.draw.num * FLEE_SUCCESS_CHANCE.den
                        < FLEE_SUCCESS_CHANCE.num * last'.draw.den
           /\ (current_monster' = NoMonster) <=> last'.flee_succeeded
           /\ player'.num_escape_scrolls = 0 ]_vars

C28_Witness ==
    /\ last.event = "turn"
    /\ last.action = "FLEE"
    /\ last.draw = FLEE_SUCCESS_CHANCE
    /\ ~last.flee_succeeded
    /\ player.num_escape_scrolls = 0
    /\ CombatContinues

\* C29: when roll_item_drop returns an armor piece, the piece was in the
\* remaining gear before the call and is not in it afterwards, and nothing
\* else was removed; when it returns NO_ITEM, HEALTH_POTION or ESCAPE_SCROLL
\* (it returns nothing else) the remaining gear is unchanged.
C29_RollRemovesTheArmorReturned ==
    [][ last'.event = "roll_item_drop" =>
          IF last'.drop \in ArmorKinds
          THEN /\ InList(last'.drop, remaining_gear)
               /\ ~InList(last'.drop, remaining_gear')
               /\ Len(remaining_gear') = Len(remaining_gear) - 1
               /\ remaining_gear'
                    = SelectSeq(remaining_gear, LAMBDA item : item # last'.drop)
          ELSE /\ last'.drop \in {"NO_ITEM", "HEALTH_POTION", "ESCAPE_SCROLL"}
               /\ remaining_gear' = remaining_gear ]_vars

C29_Witness ==
    /\ last.event = "roll_item_drop"
    /\ last.drop \in ArmorKinds
    /\ ~InList(last.drop, remaining_gear)
    /\ Len(remaining_gear) = 5
    /\ InList("SHIELD", remaining_gear)
    /\ InList("SWORD", remaining_gear)

\* C30: entering an empty room changes no game state: the player (health,
\* inventory, equipment), monsters_defeated, game_won, the current monster
\* (none) and the drop engine's remaining gear are as before.
C30_EmptyRoomChangesNothing ==
    [][ last'.event = "empty_room" =>
          /\ player' = player
          /\ monsters_defeated' = monsters_defeated
          /\ game_won' = game_won
          /\ current_monster = NoMonster
          /\ current_monster' = NoMonster
          /\ remaining_gear' = remaining_gear
          /\ emitted' = emitted ]_vars

C30_Witness ==
    /\ last.event = "empty_room"
    /\ player.health < player.max_health
    /\ player.has_shield
    /\ player.num_potions > 0
    /\ monsters_defeated > 0
    /\ Len(remaining_gear) < Len(unique_gear)

\* C31: entering a monster room sets the current monster to a freshly generated
\* monster at full health whose item_drop is what get_drop_for_monster(
\* monsters_defeated, player) returned, the player untouched; the state after it
\* is in combat and the step after it is a combat turn against a monster that
\* already carries that drop. A loot room performs one roll_item_drop, applies
\* its result to the player in the same step and leaves no current monster.
C31_RoomEntry ==
    [][/\ last'.event = "encounter" =>
             /\ current_monster = NoMonster
             /\ InCombat'
             /\ current_monster' # NoMonster
             /\ current_monster'.health = current_monster'.max_health
             /\ [current_monster' EXCEPT !.item_drop = "None"]
                    \in systems_spawn_outcomes(monsters_defeated)
             /\ \E out \in DropOutcomes(monsters_defeated, player, remaining_gear) :
                    /\ current_monster'.item_drop = out.drop
                    /\ remaining_gear' = out.gear
             /\ UNCHANGED <<player, monsters_defeated, game_won>>
       /\ last.event = "encounter" =>
             /\ last'.event = "turn"
             /\ current_monster.item_drop = last.drop
       /\ last'.event = "loot_room" =>
             /\ current_monster = NoMonster
             /\ current_monster' = NoMonster
             /\ \E out \in RollOutcomes(player, remaining_gear) :
                    /\ last'.drop = out.drop
                    /\ player' = apply_loot(player, out.drop)
                    /\ remaining_gear' = out.gear
             /\ UNCHANGED <<monsters_defeated, game_won>>
    ]_vars

\* a potion found in a loot room, then the first monster met, carrying the Shield
C31_Witness ==
    /\ last.event = "encounter"
    /\ monsters_defeated = 0
    /\ player.num_potions = 1
    /\ current_monster.item_drop = "SHIELD"
    /\ current_monster.health = current_monster.max_health

\* the weaknesses of the templates of a generator
TemplateWeaknesses(ts) == {ts[i].weaknesses : i \in 1..Len(ts)}

\* C32: every regular monster a generator produces has max_health within
\* [MONSTER_HEALTH_MIN, MONSTER_HEALTH_MAX], strength within
\* [MONSTER_STRENGTH_MIN, MONSTER_STRENGTH_MAX], is_boss false and the
\* weaknesses of one of the generator's four templates; every boss has
\* max_health BOSS_HP, strength BOSS_STRENGTH, no weaknesses and is_boss true.
C32_GeneratedStats ==
    last.event \in {"generate_monster", "systems_generate"} =>
        /\ current_monster # NoMonster
        /\ current_monster.health = current_monster.max_health
        /\ IF current_monster.is_boss
           THEN /\ current_monster.max_health = BOSS_HP
                /\ current_monster.strength = BOSS_STRENGTH
                /\ current_monster.weaknesses = {}
           ELSE /\ MONSTER_HEALTH_MIN <= current_monster.max_health
                /\ current_monster.max_health <= MONSTER_HEALTH_MAX
                /\ MONSTER_STRENGTH_MIN <= current_monster.strength
                /\ current_monster.strength <= MONSTER_STRENGTH_MAX
                /\ Len(templates) = 4 /\ Len(systems_templates) = 4
                /\ current_monster.weaknesses \in
                       IF last.event = "generate_monster"
                       THEN TemplateWeaknesses(templates)
                       ELSE TemplateWeaknesses(systems_templates)

\* a regular monster with the largest health and the smallest strength randint
\* can return, generated once the boss has become possible
C32_Witness ==
    /\ last.event = "generate_monster"
    /\ monsters_defeated >= BOSS_SPAWN_THRESHOLD
    /\ ~current_monster.is_boss
    /\ current_monster.max_health = MONSTER_HEALTH_MAX
    /\ current_monster.strength = MONSTER_STRENGTH_MIN

\* C33: configuration errors are rejected at construction: a weighted option,
\* loot bucket or room-type option raises exactly when its weight is negative,
\* and a player or monster raises exactly when its max_health is <= 0 (so no
\* actor with max_health <= 0 ever exists).
C33_ConfigurationErrorsRejected ==
    /\ last.event \in {"WeightedOption", "LootBucket", "RoomTypeOption"} =>
           (last.raised <=> RatLess(last.weight, Rat(0, 1)))
    /\ last.event \in {"Player", "Monster"} =>
           (last.raised <=> last.max_health <= 0)
    /\ player.max_health > 0
    /\ current_monster # NoMonster => current_monster.max_health > 0

\* C34: Player.use_potion with num_potions = 0 returns False and changes
\* nothing (health and num_potions as before); num_potions is never negative
\* after a use_potion.
C34_UsePotionWithoutPotions ==
    [][last'.event = "use_potion" =>
           /\ player'.num_potions >= 0
           /\ player.num_potions = 0 =>
                  /\ ~last'.returned
                  /\ player' = player
    ]_vars

\* an injured player without potions has called use_potion
C34_Witness ==
    /\ last.event = "use_potion"
    /\ ~last.returned
    /\ player.num_potions = 0
    /\ player.health < player.max_health

\* C35: when the narrator fails while decorating an event the run continues:
\* in the state a narrator failure leaves, with the player alive and the game
\* not won, the run loop can take its next step.
C35_RunContinuesAfterNarratorFailure ==
    (last.event = "narrator_failure" /\ Running) => ENABLED <<NextNarrator>>_vars

\* the player possesses the unique-gear kind k
Possesses(p, k) ==
    IF k = "SHIELD" THEN p.has_shield
    ELSE IF k = "SWORD" THEN p.has_sword
    ELSE k \in p.owned_armor

\* the places where the unique-gear kind k is: the drop engine's remaining
\* gear, the current monster's item_drop, the player's possession
PlacesOf(k) ==
    (IF InList(k, remaining_gear) THEN {"remaining_gear"} ELSE {})
        \cup (IF current_monster # NoMonster /\ current_monster.item_drop = k
              THEN {"item_drop"} ELSE {})
        \cup (IF Possesses(player, k) THEN {"player"} ELSE {})

\* C36: while the run is in progress each of the 8 unique-gear kinds is in
\* exactly one of the drop engine's remaining gear, the current monster's
\* item_drop and the player's possession.
C36_UniqueGearConserved ==
    Running => \A k \in UniqueGearKinds : Cardinality(PlacesOf(k)) = 1

\* C37: roll_item_drop never returns Shield or Sword, whatever the remaining
\* gear and the random outputs; Shield is returned only by get_drop_for_monster
\* at defeated_count 0 to a player without shield, Sword only by
\* get_drop_for_monster at defeated_count 2 to a player without sword.
C37_RollNeverGivesShieldOrSword ==
    /\ last.event = "roll_item_drop" => last.drop \notin {"SHIELD", "SWORD"}
    /\ last.drop = "SHIELD" =>
           last.event = "get_drop_for_monster" /\ last.shield_due
    /\ last.drop = "SWORD" =>
           last.event = "get_drop_for_monster" /\ last.sword_due

\* roll_item_drop returned an armor piece while Shield and Sword were both
\* still in the remaining gear
C37_Witness ==
    /\ last.event = "roll_item_drop"
    /\ last.drop \in ArmorKinds
    /\ InList("SHIELD", remaining_gear)
    /\ InList("SWORD", remaining_gear)

\* C38 as stated: when the total weight is positive, select_weighted_random
\* never returns the label of an option whose weight is 0, for every draw and
\* every position of the zero-weight option.
C38_ZeroWeightNeverSelected ==
    last.event = "select_weighted_random" =>
        LET options == last.options
        IN  RatLess(Rat(0, 1), CumulativeWeight(options, Len(options))) =>
                \A i \in 1..Len(options) :
                    RatEq(options[i].weight, Rat(0, 1)) =>
                        last.label # options[i].label

\* C38, amended: when the total weight is positive, select_weighted_random
\* returns the label of a zero-weight option only when the draw is exactly 0
\* and that option is the first of the list; for a draw above 0, and at every
\* other position, a zero-weight option is never returned.
C38_ZeroWeightOnlyFirstAtZeroDraw ==
    last.event = "select_weighted_random" =>
        LET options == last.options
        IN  RatLess(Rat(0, 1), CumulativeWeight(options, Len(options))) =>
                \A i \in 1..Len(options) :
                    (RatEq(options[i].weight, Rat(0, 1))
                        /\ last.label = options[i].label)
                    => (i = 1 /\ RatEq(last.draw, Rat(0, 1)))

\* zero-weight options first and last around a positive one, a draw above 0:
\* the positive one is returned
C38_Witness ==
    /\ last.event = "select_weighted_random"
    /\ Len(last.options) = 3
    /\ last.options[1].weight = Rat(0, 1)
    /\ last.options[2].weight = Rat(1, 2)
    /\ last.options[3].weight = Rat(0, 1)
    /\ last.draw = Rat(19, 20)
    /\ last.label = "second"

====
